---- MODULE Spec2Model ----
(***************************************************************************)
(* Model of the myAIDE mutation pipeline: the workspace guard and mutation *)
(* recorder (src/tools/filesystem.ts), the implementer's action loop and   *)
(* anchor editor (src/agents/implementer-agent.ts), the agent pipeline     *)
(* (orchestrator) and the rollback protocol (src/ui/App.tsx).              *)
(*                                                                         *)
(* Paths are sequences of path segments (POSIX semantics of node:path).    *)
(* File contents are sequences of one-character strings.                   *)
(***************************************************************************)
EXTENDS Integers, Sequences, FiniteSets, TLC

VARIABLES
    disk,        \* the file system: absolute path -> node (file or directory)
    dryRun,      \* FileSystemTool.dryRun
    hasConfirm,  \* FileSystemTool.confirm is configured
    fsPc,        \* "idle" | "confirming": a write/delete awaiting confirm()
    pend,        \* the call suspended at `await this.confirm(pending)`
    ret,         \* outcome of the last completed FileSystemTool call, with
                 \* the fs primitives it issued (ghost field `touched`)
    rpc,         \* position of runWorkflow / the orchestrator / the implementer
    iteration,   \* runIterativeRefinement: iteration
    iterStart,   \* number of results returned by the earlier iterations
    apiKey,      \* settings.openAiApiKey is set
    hasCommand,  \* a validation command is configured or hinted
    hasPlan,     \* context.plan is not empty
    nActions,    \* payload.actions.length of the implementer run in progress
    idx,         \* applyActions: number of actions of the payload processed
    mutations,   \* applyActions: the local list `mutations`
    implArtifact,\* context.artifacts["implementation"]: None or Some(actions.length)
    p3,          \* phase 3: the result of each parallel agent that has finished
    results,     \* the AgentResult list returned so far (allResults, then the
                 \* results of the pipeline pass in progress)
    rbQueue,     \* rollbackMutations: the part of `ordered` still to replay
    rbInput,     \* ghost: the list rollbackMutations was called with
    committed,   \* ghost: every mutation a FileSystemTool call returned with
                 \* applied:true during the run, in order
    disk0,       \* ghost: the disk when the run started
    last,        \* ghost: what the last iteration of applyActions did
    completions, \* ghost: client.complete calls of the implementer run so far
    retryCount,  \* ImplementerAgent.run: retryCount
    lastRaw,     \* ImplementerAgent.run: lastRaw, None outside the repair loop
    failure,     \* ghost: what the summary of a JSON failure result says
    jin,         \* the text handed to the JSON recovery engine
    jout,        \* what the engine returned for it
    aPc,         \* AnalyzerAgent.run: "idle", "reading", "done"
    aTodo,       \* collectSnapshots: the changed paths still to read
    snapshots,   \* collectSnapshots: what each read returned, in order
    tPc,         \* TestGeneratorAgent.run: "idle", "writing", "done"
    tTodo,       \* the loop over payload.tests: the tests still to write
    wr,          \* fs.writeFile in progress: the file is opened and truncated,
                 \* its data not written yet
    usage,       \* context.usage: the aggregated prompt and completion tokens
    received,    \* ghost: the sum of the token counts reported by the LLM
                 \* completions received since Orchestrator.run was entered
    din,         \* the content and the patch handed to applyUnifiedDiff
    dout,        \* what applyUnifiedDiff returned or threw for them
    events       \* ghost: the observer calls and the registerResult calls of
                 \* the pipeline pass in progress or just returned, in order

fsVars  == <<fsPc, pend, ret>>
runVars == <<rpc, iteration, iterStart, apiKey, hasCommand, hasPlan, nActions, idx,
             mutations, implArtifact, p3, results, rbQueue, rbInput, committed,
             disk0, last>>
llmVars == <<completions, retryCount, lastRaw, failure>>
jsonVars == <<jin, jout>>
concVars == <<aPc, aTodo, snapshots, tPc, tTodo, wr, usage, received>>
diffVars == <<din, dout>>
vars == <<disk, dryRun, hasConfirm, fsVars, runVars, llmVars, jsonVars, concVars, diffVars, events>>

(***************************************************************************)
(* Bounds                                                                  *)
(***************************************************************************)
\* largest number of directories passed to one ensureDirs call
MaxDirs == 2
\* largest number of actions in one implementer payload
MaxActions == 2
\* largest number of test files in one test generator payload
MaxTests == 1

(***************************************************************************)
(* node:path                                                               *)
(***************************************************************************)
\* the workspace root, /w
root == <<"w">>

\* a path argument: relative to the root, or absolute
Rel(segs) == [abs |-> FALSE, segs |-> segs]
Abs(segs) == [abs |-> TRUE,  segs |-> segs]

\* segment names whose text begins with the two characters ".."
DotDotNames == {"..", "..a"}

RECURSIVE normalizeFrom(_, _)
normalizeFrom(segs, acc) ==
    IF segs = <<>> THEN acc
    ELSE LET h == Head(segs) IN
         normalizeFrom(Tail(segs),
             IF h = "." THEN acc
             ELSE IF h = ".."
                  THEN (IF acc = <<>> THEN acc ELSE SubSeq(acc, 1, Len(acc) - 1))
                  ELSE Append(acc, h))

\* path.normalize of an absolute path
normalize(segs) == normalizeFrom(segs, <<>>)

\* path.isAbsolute
isAbsolute(p) == p.abs

\* path.join(this.root, targetPath): the segments are concatenated (join
\* also normalizes, which resolve repeats)
join(base, segs) == normalize(base \o segs)

RECURSIVE commonPrefixLen(_, _)
commonPrefixLen(a, b) ==
    IF a = <<>> \/ b = <<>> \/ Head(a) # Head(b) THEN 0
    ELSE 1 + commonPrefixLen(Tail(a), Tail(b))

\* path.relative(from, to) of two normalized absolute paths: one ".." per
\* remaining segment of `from`, then the remaining segments of `to`
relative(from, to) ==
    LET k == commonPrefixLen(from, to) IN
    [ abs  |-> FALSE,
      segs |-> [i \in 1..(Len(from) - k) |-> ".."] \o SubSeq(to, k + 1, Len(to)) ]

\* String.prototype.startsWith("..") on the text of a relative path
startsWithDotDot(rel) == rel.segs # <<>> /\ Head(rel.segs) \in DotDotNames

\* path.dirname of an absolute path
dirname(p) == IF p = <<>> THEN <<>> ELSE SubSeq(p, 1, Len(p) - 1)

\* a is a prefix of b (b is a or lies below a)
isPrefix(a, b) == Len(a) <= Len(b) /\ SubSeq(b, 1, Len(a)) = a

\* the path is the workspace root or lies below it
insideRoot(p) == isPrefix(root, p)

(***************************************************************************)
(* FileSystemTool.resolve                                                  *)
(***************************************************************************)
\* the check done as a string prefix test on the text of the path: "/w2"
\* begins with "/w"
escapesByStringPrefix(normalized) ==
    ~(normalized # <<>> /\ Head(normalized) \in {"w", "w2"})

escapes(normalized) ==
    LET rel == relative(root, normalized) IN
    startsWithDotDot(rel) \/ isAbsolute(rel)

resolve(targetPath) ==
    LET candidate  == IF isAbsolute(targetPath) THEN targetPath.segs
                      ELSE join(root, targetPath.segs)
        normalized == normalize(candidate)
    IN  IF escapes(normalized)
        THEN [threw |-> TRUE,  path |-> normalized]
        ELSE [threw |-> FALSE, path |-> normalized]

(***************************************************************************)
(* node:fs primitives on the modelled disk                                 *)
(***************************************************************************)
Dir == [kind |-> "dir"]
File(c) == [kind |-> "file", content |-> c]

isFile(d, p) == p \in DOMAIN d /\ d[p].kind = "file"
isDir(d, p)  == p \in DOMAIN d /\ d[p].kind = "dir"

\* the proper, non-empty prefixes of p (its ancestors below "/")
ancestors(p) == { SubSeq(p, 1, i) : i \in 1..(Len(p) - 1) }

\* fs.readFile(p, "utf8"): rejects for a missing path or a directory
readFile(d, p) ==
    IF isFile(d, p) THEN [ok |-> TRUE, content |-> d[p].content]
    ELSE [ok |-> FALSE, content |-> <<>>]

\* fs.mkdir(p, {recursive: true}): creates p and its missing ancestors,
\* rejects when a file is in the way
mkdir(d, p) ==
    LET chain == ancestors(p) \cup (IF p = <<>> THEN {} ELSE {p}) IN
    IF \E q \in chain : isFile(d, q)
    THEN [threw |-> TRUE, disk |-> d, created |-> {}]
    ELSE [threw |-> FALSE,
          disk  |-> [q \in DOMAIN d \cup chain |-> IF q \in DOMAIN d THEN d[q] ELSE Dir],
          created |-> chain \ DOMAIN d]

\* fs.writeFile(p, content, "utf8"): rejects for a directory or a missing parent
writeFile(d, p, c) ==
    IF isDir(d, p) \/ p = <<>> \/ ~(dirname(p) = <<>> \/ isDir(d, dirname(p)))
    THEN [threw |-> TRUE, disk |-> d]
    ELSE [threw |-> FALSE,
          disk  |-> [q \in DOMAIN d \cup {p} |-> IF q = p THEN File(c) ELSE d[q]]]

\* fs.rm(p, {recursive: true, force: true}): removes p and everything below
\* it; a missing path is not an error, a file among the ancestors is
rmRecursive(d, p) ==
    IF \E q \in ancestors(p) : isFile(d, q)
    THEN [threw |-> TRUE, disk |-> d, removed |-> {}]
    ELSE LET gone == { q \in DOMAIN d : isPrefix(p, q) } IN
         [threw |-> FALSE,
          disk  |-> [q \in DOMAIN d \ gone |-> d[q]],
          removed |-> gone]

\* fs.rm(p, {force: true}) as rollback issues it: a directory is rejected
rmFile(d, p) ==
    IF isDir(d, p) \/ \E q \in ancestors(p) : isFile(d, q)
    THEN [threw |-> TRUE, disk |-> d]
    ELSE [threw |-> FALSE, disk |-> [q \in DOMAIN d \ {p} |-> d[q]]]

(***************************************************************************)
(* FileSystemTool: the mutation recorder                                   *)
(***************************************************************************)
\* an optional string: <<>> is undefined, <<c>> is the string c
None == <<>>
Some(c) == <<c>>

\* the ghost record of one fs primitive
Touch(op, p) == [op |-> op, path |-> p]

\* what one FileSystemTool call did: threw is "none", "escape"
\* (FileSystemToolError of resolve) or "io" (a rejected fs primitive);
\* confirms is the sequence of answers confirm() gave during the call
Outcome(threw, d, mutation, confirms, touches) ==
    [threw |-> threw, disk |-> d, mutation |-> mutation,
     confirms |-> confirms, touched |-> touches]

FileMutation(pending, applied, reason) ==
    [action |-> pending.action, path |-> pending.path,
     before |-> pending.before, after |-> pending.after,
     applied |-> applied, reason |-> reason]

\* a PendingMutation that never snapshots the previous content
pendingWriteBlind(d, targetPath, content) ==
    [threw    |-> resolve(targetPath).threw,
     resolved |-> resolve(targetPath).path,
     pending  |-> [action |-> "write",
                   path   |-> relative(root, resolve(targetPath).path).segs,
                   before |-> None,
                   after  |-> Some(content)],
     touched  |-> IF resolve(targetPath).threw THEN {}
                  ELSE {Touch("read", resolve(targetPath).path)}]

\* write, up to the PendingMutation: resolve, snapshot the previous content
pendingWrite(d, targetPath, content) ==
    LET r == resolve(targetPath)
        previousContent == readFile(d, r.path)
    IN  [threw    |-> r.threw,
         resolved |-> r.path,
         pending  |-> [action |-> "write",
                       path   |-> relative(root, r.path).segs,
                       before |-> IF previousContent.ok
                                  THEN Some(previousContent.content) ELSE None,
                       after  |-> Some(content)],
         touched  |-> IF r.threw THEN {} ELSE {Touch("read", r.path)}]

\* write, after the approval: mkdir of the parent, writeFile
commitWrite(d, resolved, content, pending, confirms, reads) ==
    LET m == mkdir(d, dirname(resolved)) IN
    IF m.threw
    THEN Outcome("io", d, None, confirms, reads)
    ELSE LET w  == writeFile(m.disk, resolved, content)
             mk == { Touch("create", q) : q \in m.created }
         IN  IF w.threw
             THEN Outcome("io", m.disk, None, confirms, reads \cup mk)
             ELSE Outcome("none", w.disk, Some(FileMutation(pending, TRUE, "")),
                          confirms, reads \cup mk \cup {Touch("write", resolved)})

\* FileSystemTool.write as one call; answer is what confirm() resolves to
writeOutcome(d, targetPath, content, dry, conf, answer) ==
    LET p == pendingWrite(d, targetPath, content) IN
    IF p.threw THEN Outcome("escape", d, None, <<>>, {})
    ELSE IF dry
    THEN Outcome("none", d, Some(FileMutation(p.pending, FALSE, "dry-run")), <<>>, p.touched)
    ELSE IF conf /\ ~answer
    THEN Outcome("none", d, Some(FileMutation(p.pending, FALSE, "declined")), <<FALSE>>, p.touched)
    ELSE commitWrite(d, p.resolved, content, p.pending, IF conf THEN <<TRUE>> ELSE <<>>, p.touched)

\* delete, up to the PendingMutation
pendingDelete(d, targetPath) ==
    LET r == resolve(targetPath)
        existingContent == readFile(d, r.path)
    IN  [threw    |-> r.threw,
         resolved |-> r.path,
         pending  |-> [action |-> "delete",
                       path   |-> relative(root, r.path).segs,
                       before |-> IF existingContent.ok
                                  THEN Some(existingContent.content) ELSE None,
                       after  |-> None],
         touched  |-> IF r.threw THEN {} ELSE {Touch("read", r.path)}]

\* delete, after the approval: recursive forced rm
commitDelete(d, resolved, pending, confirms, reads) ==
    LET x == rmRecursive(d, resolved) IN
    IF x.threw
    THEN Outcome("io", d, None, confirms, reads)
    ELSE Outcome("none", x.disk, Some(FileMutation(pending, TRUE, "")), confirms,
                 reads \cup { Touch("delete", q) : q \in x.removed })

\* delete without the guard: the resolved path is used whatever resolve says
deleteOutcomeUnguarded(d, targetPath, dry, conf, answer) ==
    LET p == pendingDelete(d, targetPath) IN
    IF dry
    THEN Outcome("none", d, Some(FileMutation(p.pending, FALSE, "dry-run")), <<>>, p.touched)
    ELSE IF conf /\ ~answer
    THEN Outcome("none", d, Some(FileMutation(p.pending, FALSE, "declined")), <<FALSE>>, p.touched)
    ELSE commitDelete(d, p.resolved, p.pending, IF conf THEN <<TRUE>> ELSE <<>>, p.touched)

\* FileSystemTool.delete as one call
deleteOutcome(d, targetPath, dry, conf, answer) ==
    LET p == pendingDelete(d, targetPath) IN
    IF p.threw THEN Outcome("escape", d, None, <<>>, {})
    ELSE IF dry
    THEN Outcome("none", d, Some(FileMutation(p.pending, FALSE, "dry-run")), <<>>, p.touched)
    ELSE IF conf /\ ~answer
    THEN Outcome("none", d, Some(FileMutation(p.pending, FALSE, "declined")), <<FALSE>>, p.touched)
    ELSE commitDelete(d, p.resolved, p.pending, IF conf THEN <<TRUE>> ELSE <<>>, p.touched)

\* FileSystemTool.read as one call; the content is in `mutation.after`-free
\* form: [threw, content]
readOutcome(d, targetPath) ==
    LET r == resolve(targetPath) IN
    IF r.threw THEN [threw |-> "escape", content |-> <<>>, touched |-> {}]
    ELSE LET f == readFile(d, r.path) IN
         [threw   |-> IF f.ok THEN "none" ELSE "io",
          content |-> f.content,
          touched |-> {Touch("read", r.path)}]

\* ensureDirs without the `if (!this.dryRun)` test
RECURSIVE ensureDirsAlways(_, _, _, _)
ensureDirsAlways(d, dirs, dry, touches) ==
    IF dirs = <<>> THEN Outcome("none", d, None, <<>>, touches)
    ELSE LET r == resolve(Head(dirs)) IN
         IF r.threw THEN Outcome("escape", d, None, <<>>, touches)
         ELSE LET m == mkdir(d, r.path) IN
              IF m.threw THEN Outcome("io", d, None, <<>>, touches)
              ELSE ensureDirsAlways(m.disk, Tail(dirs), dry,
                       touches \cup { Touch("create", q) : q \in m.created })

\* FileSystemTool.ensureDirs: the loop over dirs stops at the first throw,
\* the directories made before it stay
RECURSIVE ensureDirsOutcome(_, _, _, _)
ensureDirsOutcome(d, dirs, dry, touches) ==
    IF dirs = <<>> THEN Outcome("none", d, None, <<>>, touches)
    ELSE LET r == resolve(Head(dirs)) IN
         IF r.threw THEN Outcome("escape", d, None, <<>>, touches)
         ELSE IF dry THEN ensureDirsOutcome(d, Tail(dirs), dry, touches)
         ELSE LET m == mkdir(d, r.path) IN
              IF m.threw THEN Outcome("io", d, None, <<>>, touches)
              ELSE ensureDirsOutcome(m.disk, Tail(dirs), dry,
                       touches \cup { Touch("create", q) : q \in m.created })

(***************************************************************************)
(* Strings (sequences of one-character strings) as JavaScript treats them  *)
(***************************************************************************)
\* the characters String.prototype.trim and the regex class \s take for
\* white space
isWhitespace(ch) == ch \in {" ", "\n", "\r", "\t"}

\* case folding of the `i` regex flag
toLowerCase(ch) == IF ch = "A" THEN "a" ELSE IF ch = "B" THEN "b" ELSE ch

\* String.prototype.indexOf: the first 0-based position of s, or -1
indexOf(content, s) ==
    LET occ == { i \in 0..(Len(content) - Len(s)) :
                    SubSeq(content, i + 1, i + Len(s)) = s }
    IN  IF occ = {} THEN -1 ELSE CHOOSE i \in occ : \A j \in occ : i <= j

\* String.prototype.includes
includes(content, s) == indexOf(content, s) # -1

\* String.prototype.slice(from, to) with 0-based bounds
slice(content, from, to) == SubSeq(content, from + 1, to)

RECURSIVE trimStart(_)
trimStart(s) == IF s # <<>> /\ isWhitespace(Head(s)) THEN trimStart(Tail(s)) ELSE s

RECURSIVE trimEnd(_)
trimEnd(s) ==
    IF s # <<>> /\ isWhitespace(s[Len(s)]) THEN trimEnd(SubSeq(s, 1, Len(s) - 1)) ELSE s

\* String.prototype.trim
trim(s) == trimEnd(trimStart(s))

\* /\r\n/.test(s)
hasCRLF(s) == \E i \in 1..(Len(s) - 1) : s[i] = "\r" /\ s[i + 1] = "\n"

\* the positions of s that hold no "\r" of a "\r\n" pair
notCrOfCrlf(s) ==
    SelectSeq([i \in 1..Len(s) |-> i],
              LAMBDA i : ~(s[i] = "\r" /\ i < Len(s) /\ s[i + 1] = "\n"))

\* the characters of s at the positions listed
pick(s, positions) == [k \in 1..Len(positions) |-> s[positions[k]]]

\* s.replace(/\r\n/g, "\n")
crlfToLf(s) == pick(s, notCrOfCrlf(s))

\* s.replace(/\n/g, "\r\n")
RECURSIVE lfToCrlf(_)
lfToCrlf(s) ==
    IF s = <<>> THEN <<>>
    ELSE IF Head(s) = "\n" THEN <<"\r", "\n">> \o lfToCrlf(Tail(s))
    ELSE <<Head(s)>> \o lfToCrlf(Tail(s))

(***************************************************************************)
(* Regular expressions.  A pattern is a sequence of tokens, each a literal *)
(* character or the class-plus \s+.  anchor.regex is one of: a literal     *)
(* pattern, a pattern that does not compile, a pattern that matches the    *)
(* empty string.                                                           *)
(***************************************************************************)
Lit(ch) == [ws |-> FALSE, ch |-> ch]
WsPlus  == [ws |-> TRUE,  ch |-> " "]

\* the longest run of white space starting at 1-based position pos
RECURSIVE wsRunEnd(_, _)
wsRunEnd(content, pos) ==
    IF pos <= Len(content) /\ isWhitespace(content[pos])
    THEN wsRunEnd(content, pos + 1) ELSE pos

\* match the tokens at 1-based position pos: the position after the match,
\* or 0 when there is none (\s+ is greedy; what follows it in a loose
\* pattern is never white space, so no backtracking arises)
RECURSIVE matchAt(_, _, _, _)
matchAt(tokens, content, pos, ignoreCase) ==
    IF tokens = <<>> THEN pos
    ELSE LET t == Head(tokens) IN
         IF t.ws
         THEN LET e == wsRunEnd(content, pos) IN
              IF e = pos THEN 0 ELSE matchAt(Tail(tokens), content, e, ignoreCase)
         ELSE IF pos <= Len(content)
                 /\ (IF ignoreCase THEN toLowerCase(content[pos]) = toLowerCase(t.ch)
                     ELSE content[pos] = t.ch)
              THEN matchAt(Tail(tokens), content, pos + 1, ignoreCase)
              ELSE 0

\* RegExp.prototype.exec without the g flag: the leftmost match, as
\* [found, index (0-based), length]
regexExec(tokens, content, ignoreCase) ==
    LET starts == { i \in 1..(Len(content) + 1) :
                       matchAt(tokens, content, i, ignoreCase) # 0 }
    IN  IF starts = {} THEN [found |-> FALSE, index |-> 0, length |-> 0]
        ELSE LET i == CHOOSE x \in starts : \A y \in starts : x <= y IN
             [found |-> TRUE, index |-> i - 1,
              length |-> matchAt(tokens, content, i, ignoreCase) - i]

\* text -> the pattern that matches it literally (escapeForRegex)
escapeForRegex(text) == [i \in 1..Len(text) |-> Lit(text[i])]

\* escaped.replace(/\s+/g, "\\s+"): every run of white space becomes \s+
RECURSIVE collapseWhitespace(_)
collapseWhitespace(text) ==
    IF text = <<>> THEN <<>>
    ELSE IF isWhitespace(Head(text))
    THEN <<WsPlus>> \o collapseWhitespace(trimStart(text))
    ELSE <<Lit(Head(text))>> \o collapseWhitespace(Tail(text))

\* buildLooseRegex: None for a blank snippet
buildLooseRegex(snippet) ==
    LET trimmed == trim(snippet) IN
    IF trimmed = <<>> THEN None ELSE Some(collapseWhitespace(trimmed))

(***************************************************************************)
(* ImplementerAgent.locateAnchor                                           *)
(***************************************************************************)
NoMatch == [found |-> FALSE, start |-> 0, end |-> 0]
Match(start, end) == [found |-> TRUE, start |-> start, end |-> end]

\* exec of a starred character c*: the leftmost match starts at 0 and is the
\* run of c there, which may be empty; the position after the run from pos
RECURSIVE starRunEnd(_, _, _)
starRunEnd(content, ch, pos) ==
    IF pos <= Len(content) /\ content[pos] = ch
    THEN starRunEnd(content, ch, pos + 1) ELSE pos

\* the `if (anchor.regex)` block: a compile error is swallowed, an empty
\* match is ignored
locateByRegex(content, anchor) ==
    IF anchor.regex = None \/ Head(anchor.regex).text = <<>> THEN NoMatch
    ELSE LET re == Head(anchor.regex) IN
         IF re.kind = "invalid" THEN NoMatch
         ELSE IF re.kind = "empty"
         THEN LET length == starRunEnd(content, Head(re.text), 1) - 1 IN
              IF length > 0 THEN Match(0, length) ELSE NoMatch
         ELSE LET m == regexExec(escapeForRegex(re.text), content, FALSE) IN
              IF m.found /\ m.length > 0 THEN Match(m.index, m.index + m.length)
              ELSE NoMatch

\* the `if (anchor.exact)` block: literal, then trimmed, then loose
locateByExact(content, anchor) ==
    IF anchor.exact = None \/ Head(anchor.exact) = <<>> THEN NoMatch
    ELSE LET exact   == Head(anchor.exact)
             index   == indexOf(content, exact)
             trimmed == trim(exact)
             tindex  == indexOf(content, trimmed)
             pattern == buildLooseRegex(exact)
         IN  IF index # -1 THEN Match(index, index + Len(exact))
             ELSE IF trimmed # <<>> /\ trimmed # exact /\ tindex # -1
             THEN Match(tindex, tindex + Len(trimmed))
             ELSE IF pattern # None
             THEN LET m == regexExec(Head(pattern), content, TRUE) IN
                  IF m.found /\ m.length > 0 THEN Match(m.index, m.index + m.length)
                  ELSE NoMatch
             ELSE NoMatch

\* locate with the result of the last search used unchecked: an anchor that
\* is nowhere is taken to sit at the start of the content
locateAnchorUnchecked(content, anchor) ==
    LET byRegex == locateByRegex(content, anchor)
        byExact == locateByExact(content, anchor)
    IN  IF byRegex.found THEN byRegex
        ELSE IF byExact.found THEN byExact ELSE Match(0, 0)

\* locate with `exact` tried before `regex`
locateAnchorExactFirst(content, anchor) ==
    LET byExact == locateByExact(content, anchor) IN
    IF byExact.found THEN byExact ELSE locateByRegex(content, anchor)

locateAnchor(content, anchor) ==
    LET byRegex == locateByRegex(content, anchor) IN
    IF byRegex.found THEN byRegex ELSE locateByExact(content, anchor)

(***************************************************************************)
(* ImplementerAgent: one action of applyActions                            *)
(***************************************************************************)
\* what one editing strategy did: threw is "none" or the error it threw,
\* writeCalls counts the fsTool.write/delete calls that got past resolve
Step(threw, d, mutation, writeCalls, confirms) ==
    [threw |-> threw, disk |-> d, mutation |-> mutation,
     writeCalls |-> writeCalls, confirms |-> confirms]

\* a FileSystemTool outcome as a strategy step
fromOutcome(o) ==
    Step(o.threw, o.disk, o.mutation, IF o.threw = "escape" THEN 0 ELSE 1, o.confirms)

\* `action.mode ?? (action.replacement ? "replace" : "insert_after")`
modeOf(action) ==
    IF action.mode # None THEN Head(action.mode)
    ELSE IF action.replacement # None /\ Head(action.replacement) # <<>>
    THEN "replace" ELSE "insert_after"

\* the snippet spliced in at the other end of the span
spliceAtOtherEnd(original, match, mode, action) ==
    IF mode = "replace"
    THEN slice(original, 0, match.start) \o Head(action.replacement)
            \o slice(original, match.end, Len(original))
    ELSE IF mode = "insert_after"
    THEN slice(original, 0, match.start) \o Head(action.snippet)
            \o slice(original, match.start, Len(original))
    ELSE slice(original, 0, match.end) \o Head(action.snippet)
            \o slice(original, match.end, Len(original))

\* the splice of applyAnchoredModification for a located span
spliceAt(original, match, mode, action) ==
    IF mode = "replace"
    THEN slice(original, 0, match.start) \o Head(action.replacement)
            \o slice(original, match.end, Len(original))
    ELSE IF mode = "insert_after"
    THEN slice(original, 0, match.end) \o Head(action.snippet)
            \o slice(original, match.end, Len(original))
    ELSE slice(original, 0, match.start) \o Head(action.snippet)
            \o slice(original, match.start, Len(original))

\* the write issued whatever the post-condition says
writeUpdatedUnchecked(d, action, hadCRLF, updated, dry, conf, answer) ==
    fromOutcome(writeOutcome(d, action.path,
                             IF hadCRLF THEN lfToCrlf(updated) ELSE updated,
                             dry, conf, answer))

\* the write issued before the post-condition is tested
writeUpdatedEarly(d, action, hadCRLF, updated, dry, conf, answer) ==
    IF action.ensure # None /\ Head(action.ensure) # <<>>
       /\ ~includes(updated, Head(action.ensure))
    THEN Step("postcondition",
              writeOutcome(d, action.path,
                           IF hadCRLF THEN lfToCrlf(updated) ELSE updated,
                           dry, conf, answer).disk,
              None, 1, <<>>)
    ELSE fromOutcome(writeOutcome(d, action.path,
                                  IF hadCRLF THEN lfToCrlf(updated) ELSE updated,
                                  dry, conf, answer))

\* the write of the text as edited, in LF space
writeUpdatedLf(d, action, hadCRLF, updated, dry, conf, answer) ==
    IF action.ensure # None /\ Head(action.ensure) # <<>>
       /\ ~includes(updated, Head(action.ensure))
    THEN Step("postcondition", d, None, 0, <<>>)
    ELSE fromOutcome(writeOutcome(d, action.path, updated, dry, conf, answer))

\* applyAnchoredModification from the post-condition on: `ensure` must
\* occur in the updated text, line ends are restored, the file is written
writeUpdated(d, action, hadCRLF, updated, dry, conf, answer) ==
    IF action.ensure # None /\ Head(action.ensure) # <<>>
       /\ ~includes(updated, Head(action.ensure))
    THEN Step("postcondition", d, None, 0, <<>>)
    ELSE fromOutcome(writeOutcome(d, action.path,
                                  IF hadCRLF THEN lfToCrlf(updated) ELSE updated,
                                  dry, conf, answer))

\* applyAnchoredModification from the located span on
editAt(d, action, mode, hadCRLF, original, match, dry, conf, answer) ==
    IF ~match.found THEN Step("anchor-not-found", d, None, 0, <<>>)
    ELSE IF mode \notin {"replace", "insert_after", "insert_before"}
    THEN Step("unknown-mode", d, None, 0, <<>>)
    ELSE writeUpdated(d, action, hadCRLF, spliceAt(original, match, mode, action),
                      dry, conf, answer)

\* applyAnchoredModification from the content read on: CRLF is normalised
\* to LF before the anchor is located
editContent(d, action, mode, originalRaw, hadCRLF, dry, conf, answer) ==
    IF originalRaw.threw # "none" THEN Step("read-failed", d, None, 0, <<>>)
    ELSE editAt(d, action, mode, hadCRLF,
                IF hadCRLF THEN crlfToLf(originalRaw.content) ELSE originalRaw.content,
                locateAnchor(IF hadCRLF THEN crlfToLf(originalRaw.content)
                             ELSE originalRaw.content,
                             Head(action.anchor)),
                dry, conf, answer)

\* applyAnchoredModification from the mode on
editWithMode(d, action, mode, dry, conf, answer) ==
    IF action.anchor = None THEN Step("anchor-missing", d, None, 0, <<>>)
    ELSE IF mode = "replace" /\ action.replacement = None
    THEN Step("replacement-missing", d, None, 0, <<>>)
    ELSE IF mode # "replace" /\ action.snippet = None
    THEN Step("snippet-missing", d, None, 0, <<>>)
    ELSE editContent(d, action, mode, readOutcome(d, action.path),
                     hasCRLF(readOutcome(d, action.path).content), dry, conf, answer)

applyAnchoredModification(d, action, dry, conf, answer) ==
    editWithMode(d, action, modeOf(action), dry, conf, answer)

\* applyUnifiedDiff: the outcome of the diff ladder is an input here,
\* diffResult is None when every strategy is exhausted and the new content
\* otherwise
applyUnifiedDiff(original, patch, diffResult) == diffResult

\* applyPatch: read, apply the diff in memory, write
applyPatch(d, targetPath, patch, diffResult, dry, conf, answer) ==
    LET existing == readOutcome(d, targetPath) IN
    IF existing.threw # "none" THEN Step("patch-missing-file", d, None, 0, <<>>)
    ELSE LET updated == applyUnifiedDiff(existing.content, patch, diffResult) IN
         IF updated = None THEN Step("patch-failed", d, None, 0, <<>>)
         ELSE fromOutcome(writeOutcome(d, targetPath, Head(updated), dry, conf, answer))

\* a patch of white space counted as a patch
hasPatchAnyString(action) == action.patch # None

\* `typeof action.patch === "string" && action.patch.trim()`
hasPatch(action) == action.patch # None /\ trim(Head(action.patch)) # <<>>

\* `!!(action.anchor && (action.anchor.exact || action.anchor.regex))`
hasAnchor(action) ==
    /\ action.anchor # None
    /\ \/ (Head(action.anchor).exact # None /\ Head(Head(action.anchor).exact) # <<>>)
       \/ (Head(action.anchor).regex # None /\ Head(Head(action.anchor).regex).text # <<>>)

\* `typeof action.snippet === "string" || typeof action.replacement === "string"`
hasAnchorContent(action) == action.snippet # None \/ action.replacement # None

\* what one iteration of the loop of applyActions did
Applied(threw, d, pushed, strategies, anchorThrew, patchThrew, writeCalls, confirms) ==
    [threw |-> threw, disk |-> d, pushed |-> pushed, strategies |-> strategies,
     anchorThrew |-> anchorThrew, patchThrew |-> patchThrew,
     writeCalls |-> writeCalls, confirms |-> confirms]

\* a single-strategy iteration
single(name, st) ==
    Applied(st.threw, st.disk, st.mutation, <<name>>, "none", "none",
            st.writeCalls, st.confirms)

\* the catch of the patch fallback rethrowing the patch error
afterPatchError(a, q) ==
    Applied(q.threw, q.disk, q.mutation, <<"anchor", "patch">>, a.threw, q.threw,
            a.writeCalls + q.writeCalls, a.confirms \o q.confirms)

\* the patch fallback has run: its mutation is pushed, or the anchor's
\* error is rethrown
afterPatch(a, q) ==
    IF q.threw = "none"
    THEN Applied("none", q.disk, q.mutation, <<"anchor", "patch">>, a.threw, "none",
                 a.writeCalls + q.writeCalls, a.confirms \o q.confirms)
    ELSE Applied(a.threw, q.disk, None, <<"anchor", "patch">>, a.threw, q.threw,
                 a.writeCalls + q.writeCalls, a.confirms \o q.confirms)

\* the anchor editor has run with outcome a: `continue` on success,
\* otherwise the patch fallback, if there is a non-blank patch
afterAnchor(a, action, diffResult, dry, conf, answer) ==
    IF a.threw = "none"
    THEN Applied("none", a.disk, a.mutation, <<"anchor">>, "none", "none",
                 a.writeCalls, a.confirms)
    ELSE IF hasPatch(action)
    THEN afterPatch(a, applyPatch(a.disk, action.path, Head(action.patch), diffResult,
                                  dry, conf, answer))
    ELSE Applied(a.threw, a.disk, None, <<"anchor">>, a.threw, "none",
                 a.writeCalls, a.confirms)

\* the anchor-first branch of modify_file
anchorFirst(d, action, diffResult, dry, conf, answer) ==
    afterAnchor(applyAnchoredModification(d, action, dry, conf, answer),
                action, diffResult, dry, conf, answer)

\* the body of `for (const action of actions)`
applyAction(d, action, diffResult, dry, conf, answer) ==
    IF action.path.segs = <<>> /\ ~action.path.abs
    THEN Applied("missing-path", d, None, <<>>, "none", "none", 0, <<>>)
    ELSE IF action.type = "write_file"
    THEN IF action.content = None
         THEN Applied("missing-content", d, None, <<>>, "none", "none", 0, <<>>)
         ELSE single("write", fromOutcome(writeOutcome(d, action.path, Head(action.content),
                                                       dry, conf, answer)))
    ELSE IF action.type = "modify_file"
    THEN IF hasAnchor(action) /\ hasAnchorContent(action)
         THEN anchorFirst(d, action, diffResult, dry, conf, answer)
         ELSE IF hasPatch(action)
         THEN single("patch", applyPatch(d, action.path, Head(action.patch), diffResult,
                                         dry, conf, answer))
         ELSE IF action.content # None
         THEN single("write", fromOutcome(writeOutcome(d, action.path, Head(action.content),
                                                       dry, conf, answer)))
         ELSE Applied("missing-instructions", d, None, <<>>, "none", "none", 0, <<>>)
    ELSE IF action.type = "delete_path"
    THEN single("delete", fromOutcome(deleteOutcome(d, action.path, dry, conf, answer)))
    ELSE Applied("unsupported-type", d, None, <<>>, "none", "none", 0, <<>>)

(***************************************************************************)
(* JSON texts and values.  A text is a sequence of characters; the         *)
(* typographic characters are written "ldquo" "rdquo" (curly double        *)
(* quotes), "lsquo" "rsquo" (curly single quotes), "ndash" "mdash",        *)
(* "nbsp" (U+00A0), "zwsp" (U+200B), "bel" (a C0 control character) and    *)
(* "backtick".                                                             *)
(* JSON.parse is modelled for objects, arrays, strings with the escapes    *)
(* \" \\ \/ \n \r \t, and unsigned integers.                               *)
(***************************************************************************)
JStr(s)     == [t |-> "str", v |-> s]
JNum(ds)    == [t |-> "num", v |-> ds]
JArr(elems) == [t |-> "arr", v |-> elems]
JObj(mems)  == [t |-> "obj", v |-> mems]
Member(k, v) == [k |-> k, v |-> v]

Digits == {"0", "1", "2", "3", "4", "5", "6", "7", "8", "9"}

\* the result of a parsing step: the value and the 1-based position after it
Parsed(v, next) == [ok |-> TRUE, v |-> v, next |-> next]
ParseError == [ok |-> FALSE, v |-> <<>>, next |-> 0]

\* the position of the first character at or after i that is not white space
RECURSIVE skipWs(_, _)
skipWs(t, i) == IF i <= Len(t) /\ isWhitespace(t[i]) THEN skipWs(t, i + 1) ELSE i

\* the character an escape sequence stands for, or <<>> for an escape that
\* is not one
unescape(e) ==
    IF e \in {"\"", "\\", "/"} THEN <<e>>
    ELSE IF e = "n" THEN <<"\n">>
    ELSE IF e = "r" THEN <<"\r">>
    ELSE IF e = "t" THEN <<"\t">>
    ELSE <<>>

\* the number of backslashes that end right before position i of a string
\* literal whose first character is at position j
backslashRun(t, j, i) ==
    CHOOSE k \in 0..(i - j) :
        /\ \A p \in (i - k)..(i - 1) : t[p] = "\\"
        /\ (k = i - j \/ t[i - k - 1] # "\\")

\* position i of that literal is not the second character of an escape
plainAt(t, j, i) == backslashRun(t, j, i) % 2 = 0

\* the position of the quote that closes the literal, or 0
closingQuote(t, j) ==
    IF \E i \in j..Len(t) : t[i] = "\"" /\ plainAt(t, j, i)
    THEN CHOOSE i \in j..Len(t) :
            /\ t[i] = "\"" /\ plainAt(t, j, i)
            /\ \A h \in j..(i - 1) : ~(t[h] = "\"" /\ plainAt(t, j, h))
    ELSE 0

\* what the character at position i of the literal contributes to its value
decodedAt(t, j, i) ==
    IF ~plainAt(t, j, i) THEN unescape(t[i])
    ELSE IF t[i] = "\\" THEN <<>>
    ELSE <<t[i]>>

\* the literal from j to the closing quote at c has no bad escape and no
\* raw control character
wellEscaped(t, j, c) ==
    \A i \in j..(c - 1) :
        IF ~plainAt(t, j, i) THEN unescape(t[i]) # <<>>
        ELSE t[i] \notin {"\n", "\r", "\t", "bel"}

\* the members of a sequence of one-element sequences
heads(seq) == [k \in 1..Len(seq) |-> Head(seq[k])]

\* the value of the literal between positions j and c - 1
decoded(t, j, c) ==
    heads(SelectSeq([i \in 1..(c - j) |-> decodedAt(t, j, j + i - 1)],
                    LAMBDA d : d # <<>>))

\* a string literal whose closing quote is at position c
stringUpTo(t, j, c) ==
    IF c = 0 \/ ~wellEscaped(t, j, c) THEN ParseError
    ELSE Parsed(JStr(decoded(t, j, c)), c + 1)

\* a string literal from the character after its opening quote
parseString(t, j) == stringUpTo(t, j, closingQuote(t, j))

\* an unsigned integer without leading zero
RECURSIVE parseDigits(_, _, _)
parseDigits(t, j, acc) ==
    IF j <= Len(t) /\ t[j] \in Digits
    THEN IF acc = <<"0">> THEN ParseError ELSE parseDigits(t, j + 1, Append(acc, t[j]))
    ELSE Parsed(JNum(acc), j)

\* an object keeps one member per key: a repeated key takes the later value
putMember(mems, k, v) ==
    IF \E i \in 1..Len(mems) : mems[i].k = k
    THEN [i \in 1..Len(mems) |-> IF mems[i].k = k THEN Member(k, v) ELSE mems[i]]
    ELSE Append(mems, Member(k, v))

RECURSIVE parseValue(_, _)
RECURSIVE elementParsed(_, _, _)
RECURSIVE keyParsed(_, _, _)
RECURSIVE memberParsed(_, _, _, _)

\* the elements of an array from position i on, acc being those before
parseElements(t, i, acc) == elementParsed(t, parseValue(t, i), acc)

elementParsed(t, r, acc) ==
    IF ~r.ok \/ skipWs(t, r.next) > Len(t) THEN ParseError
    ELSE IF t[skipWs(t, r.next)] = ","
    THEN parseElements(t, skipWs(t, r.next) + 1, Append(acc, r.v))
    ELSE IF t[skipWs(t, r.next)] = "]"
    THEN Parsed(JArr(Append(acc, r.v)), skipWs(t, r.next) + 1)
    ELSE ParseError

\* the members of an object from position i on, acc being those before
parseMembers(t, i, acc) ==
    IF skipWs(t, i) > Len(t) \/ t[skipWs(t, i)] # "\"" THEN ParseError
    ELSE keyParsed(t, parseString(t, skipWs(t, i) + 1), acc)

keyParsed(t, key, acc) ==
    IF ~key.ok \/ skipWs(t, key.next) > Len(t) \/ t[skipWs(t, key.next)] # ":"
    THEN ParseError
    ELSE memberParsed(t, key.v.v, parseValue(t, skipWs(t, key.next) + 1), acc)

memberParsed(t, k, r, acc) ==
    IF ~r.ok \/ skipWs(t, r.next) > Len(t) THEN ParseError
    ELSE IF t[skipWs(t, r.next)] = ","
    THEN parseMembers(t, skipWs(t, r.next) + 1, putMember(acc, k, r.v))
    ELSE IF t[skipWs(t, r.next)] = "}"
    THEN Parsed(JObj(putMember(acc, k, r.v)), skipWs(t, r.next) + 1)
    ELSE ParseError

\* the value that starts at position j, which is not white space
valueAt(t, j) ==
    IF j > Len(t) THEN ParseError
    ELSE IF t[j] = "\"" THEN parseString(t, j + 1)
    ELSE IF t[j] \in Digits THEN parseDigits(t, j, <<>>)
    ELSE IF t[j] = "["
    THEN IF skipWs(t, j + 1) <= Len(t) /\ t[skipWs(t, j + 1)] = "]"
         THEN Parsed(JArr(<<>>), skipWs(t, j + 1) + 1)
         ELSE parseElements(t, j + 1, <<>>)
    ELSE IF t[j] = "{"
    THEN IF skipWs(t, j + 1) <= Len(t) /\ t[skipWs(t, j + 1)] = "}"
         THEN Parsed(JObj(<<>>), skipWs(t, j + 1) + 1)
         ELSE parseMembers(t, j + 1, <<>>)
    ELSE ParseError

parseValue(t, i) == valueAt(t, skipWs(t, i))

\* a whole text is one value with white space around it
wholeText(t, r) == IF r.ok /\ skipWs(t, r.next) > Len(t) THEN Some(r.v) ELSE None

\* JSON.parse: Some(value), or None for a SyntaxError
jsonParse(t) == wholeText(t, parseValue(t, 1))

(***************************************************************************)
(* The JSON recovery engine of the implementer                             *)
(***************************************************************************)
\* the characters normalizeJsonText rewrites one for one
straighten(ch) ==
    IF ch \in {"ldquo", "rdquo"} THEN "\""
    ELSE IF ch \in {"lsquo", "rsquo"} THEN "'"
    ELSE IF ch \in {"ndash", "mdash"} THEN "-"
    ELSE ch

\* tab and non-breaking space become a blank
blank(ch) == IF ch \in {"\t", "nbsp"} THEN " " ELSE ch

\* normalizeJsonText: the chain of replace calls, then the optional trim
normalizeJsonText(input, trimIt) ==
    LET quoted   == [i \in 1..Len(input) |-> straighten(input[i])]
        unix     == crlfToLf(quoted)
        stripped == SelectSeq(unix, LAMBDA ch : ch \notin {"zwsp", "bel"})
        cleaned  == [i \in 1..Len(stripped) |-> blank(stripped[i])]
    IN  IF trimIt THEN trim(cleaned) ELSE cleaned

startsWith(s, p) == Len(s) >= Len(p) /\ SubSeq(s, 1, Len(p)) = p
endsWith(s, p) == Len(s) >= Len(p) /\ SubSeq(s, Len(s) - Len(p) + 1, Len(s)) = p

fence == <<"backtick", "backtick", "backtick">>

\* `(?:json)?` under the i flag, at the head of s
afterJsonTag(s) ==
    IF Len(s) >= 4 /\ [i \in 1..4 |-> toLowerCase(s[i])] = <<"j", "s", "o", "n">>
    THEN SubSeq(s, 5, Len(s)) ELSE s

\* group 1 of /^```(?:json)?\s*([\s\S]*?)```$/i, or None without a match
fenceMatch(s) ==
    IF Len(s) >= 6 /\ startsWith(s, fence) /\ endsWith(s, fence)
    THEN Some(trimStart(afterJsonTag(SubSeq(s, 4, Len(s) - 3))))
    ELSE None

\* String.prototype.lastIndexOf for one character
lastIndexOf(s, ch) ==
    LET occ == { i \in 0..(Len(s) - 1) : s[i + 1] = ch }
    IN  IF occ = {} THEN -1 ELSE CHOOSE i \in occ : \A j \in occ : j <= i

\* sanitizeJson from the fence test on
unfenced(s) == IF startsWith(s, fence) /\ fenceMatch(s) # None THEN Head(fenceMatch(s)) ELSE s

braced(s) ==
    IF ~startsWith(s, <<"{">>) /\ indexOf(s, <<"{">>) # -1 /\ lastIndexOf(s, "}") # -1
       /\ lastIndexOf(s, "}") >= indexOf(s, <<"{">>)
    THEN slice(s, indexOf(s, <<"{">>), lastIndexOf(s, "}") + 1)
    ELSE s

sanitizeJson(raw) == normalizeJsonText(braced(unfenced(normalizeJsonText(raw, TRUE))), TRUE)

\* the scanner state shared by balanceJson and the extractors
closerOf(ch) == IF ch = "{" THEN "}" ELSE "]"

\* the state of the scan of balanceJson
ScanState(inString, escaped, stack) ==
    [inString |-> inString, escaped |-> escaped, stack |-> stack]

\* one iteration of its loop
balanceStep(st, ch) ==
    IF st.escaped THEN ScanState(st.inString, FALSE, st.stack)
    ELSE IF ch = "\\" THEN ScanState(st.inString, TRUE, st.stack)
    ELSE IF ch = "\"" THEN ScanState(~st.inString, FALSE, st.stack)
    ELSE IF st.inString THEN st
    ELSE IF ch \in {"{", "["} THEN ScanState(FALSE, FALSE, Append(st.stack, ch))
    ELSE IF ch \in {"}", "]"} /\ st.stack # <<>>
            /\ closerOf(st.stack[Len(st.stack)]) = ch
    THEN ScanState(FALSE, FALSE, SubSeq(st.stack, 1, Len(st.stack) - 1))
    ELSE st

\* the iterations for the positions lo..hi, from state st (which is
\* computed before the range is entered)
RECURSIVE balanceRange(_, _, _, _)
balanceRange(input, lo, hi, st) ==
    IF st.escaped \in BOOLEAN /\ lo > hi THEN st
    ELSE IF lo = hi THEN balanceStep(st, input[lo])
    ELSE balanceRange(input, (lo + hi) \div 2 + 1, hi,
                      balanceRange(input, lo, (lo + hi) \div 2, st))

\* the stack when the loop is over
balanceScan(input) ==
    balanceRange(input, 1, Len(input), ScanState(FALSE, FALSE, <<>>)).stack

\* the closers in the order the brackets were opened
closingInOpeningOrder(stack) == [i \in 1..Len(stack) |-> closerOf(stack[i])]

\* stack.reverse().map(closer).join("")
closing(stack) == [i \in 1..Len(stack) |-> closerOf(stack[Len(stack) + 1 - i])]

\* a balancer that leaves its input alone
balanceNothing(input) == input

balanceJson(input) == input \o closing(balanceScan(input))

\* the state of the scan of the extractors; end is the position of the `}`
\* that brought the depth back to 0, or 0 before it is met
BraceState(inString, escaped, depth, end) ==
    [inString |-> inString, escaped |-> escaped, depth |-> depth, end |-> end]

\* one iteration of their inner loop, at position i
braceStep(st, ch, i) ==
    IF st.end # 0 THEN st
    ELSE IF st.escaped THEN BraceState(st.inString, FALSE, st.depth, 0)
    ELSE IF ch = "\\" THEN BraceState(st.inString, TRUE, st.depth, 0)
    ELSE IF ch = "\"" THEN BraceState(~st.inString, FALSE, st.depth, 0)
    ELSE IF st.inString THEN st
    ELSE IF ch = "{" THEN BraceState(FALSE, FALSE, st.depth + 1, 0)
    ELSE IF ch = "}"
    THEN BraceState(FALSE, FALSE, st.depth - 1, IF st.depth - 1 = 0 THEN i ELSE 0)
    ELSE st

RECURSIVE braceRange(_, _, _, _)
braceRange(raw, lo, hi, st) ==
    IF st.escaped \in BOOLEAN /\ lo > hi THEN st
    ELSE IF lo = hi THEN braceStep(st, raw[lo], lo)
    ELSE braceRange(raw, (lo + hi) \div 2 + 1, hi,
                    braceRange(raw, lo, (lo + hi) \div 2, st))

\* the 1-based position of the `}` that brings the depth back to 0 in a
\* scan from position i on, or 0 when the text ends first
braceScan(raw, i) == braceRange(raw, i, Len(raw), BraceState(FALSE, FALSE, 0, 0)).end

\* the span from the `{` at position i to its closing `}`, or None
spanFrom(raw, i, end) == IF end = 0 THEN None ELSE Some(SubSeq(raw, i, end))

extractBestEffortJson(raw) ==
    IF indexOf(raw, <<"{">>) = -1 THEN None
    ELSE spanFrom(raw, indexOf(raw, <<"{">>) + 1,
                  braceScan(raw, indexOf(raw, <<"{">>) + 1))

actionsKey == <<"\"", "a", "c", "t", "i", "o", "n", "s", "\"">>

\* the snippet extractJsonCandidates pushes for position i, or None
candidateAt(raw, i, end) ==
    IF raw[i] = "{" /\ end # 0 /\ includes(SubSeq(raw, i, end), actionsKey)
    THEN Some(trim(SubSeq(raw, i, end)))
    ELSE None

\* the snippets pushed, in the order of their `{`
candidatesFrom(raw) ==
    SelectSeq([i \in 1..Len(raw) |-> candidateAt(raw, i, braceScan(raw, i))],
              LAMBDA c : c # None)

\* Array.from(new Set(results)), on a sequence of Some(snippet)
unique(seq) ==
    SelectSeq([i \in 1..Len(seq) |-> IF \E j \in 1..(i - 1) : seq[j] = seq[i]
                                     THEN None ELSE seq[i]],
              LAMBDA o : o # None)

\* the stable sort by length, longest first
RECURSIVE byLengthDesc(_)
byLengthDesc(seq) ==
    IF Len(seq) = 0 THEN <<>>
    ELSE LET longest == CHOOSE i \in 1..Len(seq) :
                            /\ \A j \in 1..Len(seq) : Len(seq[j]) <= Len(seq[i])
                            /\ \A j \in 1..(i - 1) : Len(seq[j]) < Len(seq[i])
         IN  <<seq[longest]>>
                \o byLengthDesc([j \in 1..(Len(seq) - 1) |->
                                    IF j < longest THEN seq[j] ELSE seq[j + 1]])

extractJsonCandidates(raw) ==
    byLengthDesc(heads(unique(candidatesFrom(raw))))

\* the jsonrepair library: a text that is JSON already comes back as it is;
\* for any other text the library throws (fix = None) or returns the text
\* fix holds
jsonrepair(text, fix) == IF jsonParse(text) # None THEN Some(text) ELSE fix

\* JSON.parse(jsonrepair(text))
parseRepaired(text, fix) ==
    IF jsonrepair(text, fix) = None THEN None ELSE jsonParse(Head(jsonrepair(text, fix)))

\* the four attempts made for one extracted candidate
attemptsExtracted(item, fix) ==
    << jsonParse(item), parseRepaired(item, fix),
       jsonParse(balanceJson(item)), parseRepaired(balanceJson(item), fix) >>

\* the attempts for the additional candidates that are not in candidateSet
RECURSIVE attemptsAdditional(_, _, _, _)
attemptsAdditional(items, i, candidateSet, fix) ==
    IF i > Len(items) THEN <<>>
    ELSE IF items[i] \in candidateSet
    THEN attemptsAdditional(items, i + 1, candidateSet, fix)
    ELSE attemptsExtracted(items[i], fix)
            \o attemptsAdditional(items, i + 1,
                                  candidateSet \cup {items[i], balanceJson(items[i])}, fix)

\* the result of the first attempt that does not throw, or None
firstSuccess(attempts) ==
    IF \E i \in 1..Len(attempts) : attempts[i] # None
    THEN attempts[CHOOSE i \in 1..Len(attempts) :
                     /\ attempts[i] # None
                     /\ \A j \in 1..(i - 1) : attempts[j] = None]
    ELSE None

\* parseWithRepair with the extracted span given
cascade(candidate, raw, extracted, fix) ==
    firstSuccess(
        << jsonParse(candidate), jsonParse(balanceJson(candidate)),
           parseRepaired(candidate, fix), parseRepaired(balanceJson(candidate), fix),
           parseRepaired(raw, fix), parseRepaired(balanceJson(raw), fix) >>
        \o (IF extracted = None THEN <<>>
            ELSE << jsonParse(Head(extracted)), parseRepaired(Head(extracted), fix),
                    jsonParse(balanceJson(Head(extracted))),
                    parseRepaired(balanceJson(Head(extracted)), fix) >>)
        \o attemptsAdditional(extractJsonCandidates(raw), 1,
                              {candidate, balanceJson(candidate)}
                                 \cup (IF extracted = None THEN {}
                                       ELSE {Head(extracted), balanceJson(Head(extracted))}),
                              fix))

\* parseWithRepair: Some(value), or None when every attempt throws
parseWithRepair(candidate, raw, fix) ==
    cascade(candidate, raw, extractBestEffortJson(raw), fix)

\* the value of a member of an object, or None
getMember(obj, k) ==
    IF obj.t = "obj" /\ \E i \in 1..Len(obj.v) : obj.v[i].k = k
    THEN Some(obj.v[CHOOSE i \in 1..Len(obj.v) : obj.v[i].k = k].v)
    ELSE None

sPatch   == <<"p", "a", "t", "c", "h">>
sPatches == <<"p", "a", "t", "c", "h", "e", "s">>
sActions == <<"a", "c", "t", "i", "o", "n", "s">>

\* Array.isArray(x) && x.length, for an optional member
nonEmptyArray(m) == m # None /\ Head(m).t = "arr" /\ Head(m).v # <<>>

\* an action kept as it is whatever its patches
normalizeActionKept(action) == <<action>>

\* normalizeAction: `{ ...action, patch }` for each element of patches
normalizeAction(action) ==
    IF nonEmptyArray(getMember(action, sPatches))
    THEN [i \in 1..Len(Head(getMember(action, sPatches)).v) |->
             JObj(putMember(action.v, sPatch, Head(getMember(action, sPatches)).v[i]))]
    ELSE <<action>>

\* actions.flatMap(normalizeAction)
RECURSIVE flatMapNormalize(_)
flatMapNormalize(actions) ==
    IF actions = <<>> THEN <<>>
    ELSE normalizeAction(Head(actions)) \o flatMapNormalize(Tail(actions))

\* parsePayload after parseWithRepair
payloadOf(parsed) ==
    IF parsed = None THEN [error |-> "invalid-json", payload |-> None]
    ELSE IF getMember(Head(parsed), sActions) = None
            \/ Head(getMember(Head(parsed), sActions)).t # "arr"
    THEN [error |-> "missing-actions", payload |-> None]
    ELSE [error |-> "none",
          payload |-> Some(JObj(putMember(Head(parsed).v, sActions,
                          JArr(flatMapNormalize(Head(getMember(Head(parsed), sActions)).v)))))]

\* parsePayload behind the try/catch of parsePayloadSafe
parsePayloadSafe(raw, fix) == payloadOf(parseWithRepair(sanitizeJson(raw), raw, fix))

\* truncateForError, with "hellip" for the ellipsis
truncateForError(text, maxLength) ==
    IF Len(normalizeJsonText(text, TRUE)) <= maxLength
    THEN normalizeJsonText(text, TRUE)
    ELSE Append(SubSeq(normalizeJsonText(text, TRUE), 1, maxLength), "hellip")

(***************************************************************************)
(* The state of a workflow run before it starts                            *)
(***************************************************************************)
\* the ghost record of the last step: the action an applyActions iteration
\* processed and what it did, or what the validation command did
NoLast == [action |-> None, outcome |-> None, shell |-> "none"]

NoPhase3 == [analyzer |-> None, testGenerator |-> None, optimizer |-> None]

\* no implementer run is in its repair loop
LlmIdle ==
    /\ completions = 0
    /\ retryCount = 0
    /\ lastRaw = None
    /\ failure = None

\* the recovery engine has not been called
JsonIdle == jin = None /\ jout = None

DiffIdle == din = None /\ dout = None

\* no agent of the parallel phase is at an await
\* `usage: { prompt: 0, completion: 0 }` of buildContext
NoUsage == [prompt |-> 0, completion |-> 0]

ConcIdle ==
    /\ aPc = "idle" /\ aTodo = <<>> /\ snapshots = <<>>
    /\ tPc = "idle" /\ tTodo = <<>> /\ wr = None
    /\ usage = NoUsage /\ received = NoUsage

RunIdle ==
    /\ rpc = "idle"
    /\ iteration = 0
    /\ iterStart = 0
    /\ apiKey = TRUE
    /\ hasCommand = FALSE
    /\ hasPlan = FALSE
    /\ nActions = 0
    /\ idx = 0
    /\ mutations = <<>>
    /\ implArtifact = None
    /\ p3 = NoPhase3
    /\ results = <<>>
    /\ rbQueue = <<>>
    /\ rbInput = None
    /\ committed = <<>>
    /\ disk0 = <<>>
    /\ last = NoLast
    /\ LlmIdle

(***************************************************************************)
(* Specification SpecFs: a caller issuing FileSystemTool calls one after   *)
(* the other; a write or delete that needs approval is suspended at        *)
(* `await this.confirm(pending)` until the callback answers.               *)
(***************************************************************************)
\* the path arguments the caller passes
FsTargets ==
    { Rel(<<"a">>), Rel(<<"d", "a">>), Rel(<<"a", "b">>), Rel(<<".">>),
      Rel(<<"..", "o">>), Rel(<<"a", "..", "..", "o">>), Rel(<<"..", "w2", "a">>),
      Rel(<<"..a">>), Rel(<<"..", "w", "a">>),
      Abs(<<"w", "a">>), Abs(<<"o">>), Abs(<<"w2">>) }

\* the directories the caller asks ensureDirs for
DirTargets ==
    { Rel(<<"d">>), Rel(<<"a", "b">>), Rel(<<"..", "o", "n">>), Abs(<<"w2", "n">>) }

\* the contents the caller writes
FsContents == { <<"x">>, <<"y">> }

\* the disk outside the workspace: /o and /w2/a
OutsideDisk ==
    (<<"o">> :> File(<<"o">>)) @@ (<<"w2">> :> Dir) @@ (<<"w2", "a">> :> File(<<"s">>))

\* the workspaces a session starts on
InitDisks ==
    { OutsideDisk @@ (root :> Dir),
      OutsideDisk @@ (root :> Dir) @@ (<<"w", "a">> :> File(<<"x">>)),
      OutsideDisk @@ (root :> Dir) @@ (<<"w", "d">> :> Dir)
                  @@ (<<"w", "d", "a">> :> File(<<"y">>)) }

Ret(op, target, content, o) ==
    [op |-> op, target |-> target, content |-> content, threw |-> o.threw,
     mutation |-> o.mutation, confirms |-> o.confirms,
     touched |-> o.touched]

NoRet == [op |-> "none", target |-> Rel(<<>>), content |-> None, threw |-> "none",
          mutation |-> None, confirms |-> <<>>, touched |-> {}]

InitFs ==
    /\ disk \in InitDisks
    /\ dryRun \in BOOLEAN
    /\ hasConfirm \in BOOLEAN
    /\ fsPc = "idle"
    /\ pend = None
    /\ ret = NoRet
    /\ RunIdle
    /\ JsonIdle
    /\ ConcIdle
    /\ DiffIdle
    /\ events = <<>>

\* the call reaches `await this.confirm(pending)`
awaitsConfirm(dry, conf) == ~dry /\ conf

Complete(op, target, content, o) ==
    /\ disk' = o.disk
    /\ ret' = Ret(op, target, content, o)
    /\ fsPc' = "idle"
    /\ pend' = None
    /\ UNCHANGED <<llmVars, jsonVars, concVars, diffVars, events>>
    /\ UNCHANGED <<dryRun, hasConfirm, runVars>>

read(targetPath) ==
    /\ fsPc = "idle"
    /\ LET o == readOutcome(disk, targetPath) IN
       Complete("read", targetPath, None, Outcome(o.threw, disk, None, <<>>, o.touched))

list(dir) ==
    /\ fsPc = "idle"
    /\ LET r == resolve(dir) IN
       Complete("list", dir, None,
           IF r.threw THEN Outcome("escape", disk, None, <<>>, {})
           ELSE Outcome(IF isDir(disk, r.path) THEN "none" ELSE "io", disk, None, <<>>,
                        {Touch("readdir", r.path)}))

ensureDirs(dirs) ==
    /\ fsPc = "idle"
    /\ Complete("ensureDirs", Head(dirs), None, ensureDirsOutcome(disk, dirs, dryRun, {}))

write(targetPath, content) ==
    /\ fsPc = "idle"
    /\ LET p == pendingWrite(disk, targetPath, content) IN
       IF ~p.threw /\ awaitsConfirm(dryRun, hasConfirm)
       THEN /\ fsPc' = "confirming"
            /\ pend' = Some([op |-> "write", target |-> targetPath, content |-> content,
                             resolved |-> p.resolved, pending |-> p.pending,
                             touched |-> p.touched])
            /\ UNCHANGED <<llmVars, jsonVars, concVars, diffVars, events>>
            /\ UNCHANGED <<disk, ret, dryRun, hasConfirm, runVars>>
       ELSE Complete("write", targetPath, Some(content),
                     writeOutcome(disk, targetPath, content, dryRun, hasConfirm, TRUE))

delete(targetPath) ==
    /\ fsPc = "idle"
    /\ LET p == pendingDelete(disk, targetPath) IN
       IF ~p.threw /\ awaitsConfirm(dryRun, hasConfirm)
       THEN /\ fsPc' = "confirming"
            /\ pend' = Some([op |-> "delete", target |-> targetPath, content |-> <<>>,
                             resolved |-> p.resolved, pending |-> p.pending,
                             touched |-> p.touched])
            /\ UNCHANGED <<llmVars, jsonVars, concVars, diffVars, events>>
            /\ UNCHANGED <<disk, ret, dryRun, hasConfirm, runVars>>
       ELSE Complete("delete", targetPath, None,
                     deleteOutcome(disk, targetPath, dryRun, hasConfirm, TRUE))

\* the continuation with the answer of confirm() ignored
afterConfirmIgnored(d, call, answer) ==
    IF call.op = "write"
    THEN commitWrite(d, call.resolved, call.content, call.pending, <<answer>>, call.touched)
    ELSE commitDelete(d, call.resolved, call.pending, <<answer>>, call.touched)

\* the continuation of a suspended write/delete once confirm() has answered
afterConfirm(d, call, answer) ==
    IF ~answer
    THEN Outcome("none", d, Some(FileMutation(call.pending, FALSE, "declined")),
                 <<answer>>, call.touched)
    ELSE IF call.op = "write"
    THEN commitWrite(d, call.resolved, call.content, call.pending, <<answer>>, call.touched)
    ELSE commitDelete(d, call.resolved, call.pending, <<answer>>, call.touched)

confirmReply(answer) ==
    /\ fsPc = "confirming"
    /\ LET call == Head(pend) IN
       Complete(call.op, call.target,
                IF call.op = "write" THEN Some(call.content) ELSE None,
                afterConfirm(disk, call, answer))

NextFs ==
    \/ \E t \in FsTargets : read(t)
    \/ \E t \in FsTargets : list(t)
    \/ \E n \in 1..MaxDirs : \E dirs \in [1..n -> DirTargets] : ensureDirs(dirs)
    \/ \E t \in FsTargets, c \in FsContents : write(t, c)
    \/ \E t \in FsTargets : delete(t)
    \/ \E answer \in BOOLEAN : confirmReply(answer)

SpecFs == InitFs /\ [][NextFs]_vars

(***************************************************************************)
(* The implementer run: ImplementerAgent.run and applyActions              *)
(***************************************************************************)
Str1(a) == <<a>>
Str3(a, b, c) == <<a, b, c>>

\* an ImplementationAction; every optional field is None or Some(value)
Action(type, path, content, patch, mode, anchor, replacement, snippet, ensure) ==
    [type |-> type, path |-> path, content |-> content, patch |-> patch,
     mode |-> mode, anchor |-> anchor, replacement |-> replacement,
     snippet |-> snippet, ensure |-> ensure]

AnchorSpec(exact, regex) == Some([exact |-> exact, regex |-> regex])
Regex(kind, text) == Some([kind |-> kind, text |-> text])

\* an entry of the ghost log: onAgentStart(agent), registerResult(result of
\* agent), onAgentFinish(result of agent)
Event(kind, agent) == [kind |-> kind, agent |-> agent]

\* the agent is started: onAgentStart, then run up to its first await
started(agent) == <<Event("start", agent)>>

\* the run of the agent returned: registerResult, then onAgentFinish
finished(agent) == <<Event("register", agent), Event("finish", agent)>>

\* an AgentResult; critical stands for `details` containing "critical"
AgentResult(agent, status, muts, critical) ==
    [agent |-> agent, status |-> status, mutations |-> muts, critical |-> critical]

\* the applied mutations among a list
appliedOf(muts) == SelectSeq(muts, LAMBDA m : m.applied)

\* the repair loop of run gives up after this many repair completions
maxRepairs == 2
\* the length run truncates the last raw response to in its error message
snippetLength == 1200

\* a repair loop without a limit
repairsLeftAlways(count) == TRUE

\* `retryCount < 2`, the test of the repair loop
repairsLeft(count) == count < maxRepairs

\* the number of actions of a parsed payload
actionCount(payload) == Len(Head(getMember(payload, sActions)).v)

\* run goes on to applyActions with the payload it parsed
payloadParsed(payload) ==
    /\ nActions' = actionCount(payload)
    /\ idx' = 0
    /\ mutations' = <<>>
    /\ rpc' = "applyActions"
    /\ retryCount' = 0
    /\ lastRaw' = None
    /\ UNCHANGED <<results, failure, events>>

\* a pipeline that goes on to the parallel phase after a failed implementer
implementerFailsOn ==
    /\ results' = Append(results, AgentResult("implementer", "failure", None, FALSE))
    /\ rpc' = "phase3"
    /\ events' = events \o finished("implementer")
    /\ UNCHANGED <<nActions, idx, mutations>>

\* run returns a Failure result from its guards or its catch
implementerFails ==
    /\ results' = Append(results, AgentResult("implementer", "failure", None, FALSE))
    /\ rpc' = "reporter"
    /\ events' = events \o finished("implementer") \o started("reporter")
    /\ UNCHANGED <<nActions, idx, mutations>>

\* what the implementer run leaves alone before applyActions
beforeActionsFrame ==
    UNCHANGED <<disk, dryRun, hasConfirm, fsVars, iteration, iterStart, apiKey,
                hasCommand, hasPlan, implArtifact, p3, rbQueue, rbInput,
                committed, disk0, last, jsonVars, concVars, diffVars>>

\* the primary completion has been parsed with result r
afterPrimary(raw, r) ==
    IF r.payload # None
    THEN payloadParsed(Head(r.payload))
    ELSE /\ rpc' = "repair"
         /\ retryCount' = 0
         /\ lastRaw' = Some(raw)
         /\ UNCHANGED <<nActions, idx, mutations, results, failure, events>>

\* ImplementerAgent.run up to the parsed payload of the primary completion;
\* llm is None when client.complete throws and Some(raw text) otherwise, fix
\* is what jsonrepair makes of a text that is not JSON
implementerBegin(llm, fix) ==
    /\ rpc = "implementer"
    /\ IF ~(hasPlan /\ apiKey)
       THEN implementerFails /\ UNCHANGED llmVars
       ELSE /\ completions' = completions + 1
            /\ IF llm = None
               THEN implementerFails /\ UNCHANGED <<retryCount, lastRaw, failure>>
               ELSE afterPrimary(Head(llm), parsePayloadSafe(Head(llm), fix))
    /\ beforeActionsFrame

\* the repair loop is left without a payload: run throws the error that
\* quotes the last raw response, and its catch returns the Failure result
repairsExhausted(attempts, raw) ==
    /\ failure' = Some([attempts |-> attempts,
                        snippet  |-> truncateForError(raw, snippetLength)])
    /\ implementerFails

\* an iteration of the repair loop ended with result r, raw being lastRaw
afterRepair(attempts, raw, r) ==
    IF r.payload # None
    THEN payloadParsed(Head(r.payload))
    ELSE /\ retryCount' = attempts
         /\ lastRaw' = Some(raw)
         /\ IF repairsLeft(attempts)
            THEN UNCHANGED <<rpc, nActions, idx, mutations, results, failure, events>>
            ELSE repairsExhausted(attempts, raw)

NoPayload == [error |-> "request-failed", payload |-> None]

\* one iteration of the repair loop: retryInvalidJson requests a repair
\* completion and parses it; when the request throws, the raw text stays
repairAttempt(llm, fix) ==
    /\ rpc = "repair"
    /\ repairsLeft(retryCount)
    /\ completions' = completions + 1
    /\ IF llm = None
       THEN afterRepair(retryCount + 1, Head(lastRaw), NoPayload)
       ELSE afterRepair(retryCount + 1, Head(llm), parsePayloadSafe(Head(llm), fix))
    /\ beforeActionsFrame

\* a loop that swallows the error of an action and goes on to the next
continuesAlways(threw) == TRUE

\* the loop of applyActions goes on to the next action only when the
\* iteration did not throw: nothing in the loop catches
continuesAfter(threw) == threw = "none"

\* the loop of applyActions after an iteration that did r: the mutation is
\* pushed, or the throw leaves the loop and is caught by run, which returns
\* a Failure result
afterAction(action, r) ==
    /\ disk' = r.disk
    /\ committed' = committed \o appliedOf(r.pushed)
    /\ last' = [action |-> Some(action), outcome |-> Some([r EXCEPT !.disk = <<>>]),
                shell |-> "none"]
    /\ idx' = idx + 1
    /\ IF continuesAfter(r.threw)
       THEN /\ mutations' = mutations \o r.pushed
            /\ UNCHANGED <<rpc, results, events>>
       ELSE /\ results' = Append(results,
                              AgentResult("implementer", "failure", None, FALSE))
            /\ rpc' = "reporter"
            /\ events' = events \o finished("implementer") \o started("reporter")
            /\ UNCHANGED mutations

\* one iteration of the loop of applyActions
applyActionStep(action, diffResult, answer) ==
    /\ rpc = "applyActions"
    /\ idx < nActions
    /\ afterAction(action, applyAction(disk, action, diffResult, dryRun, hasConfirm, answer))
    /\ UNCHANGED <<llmVars, jsonVars, concVars, diffVars>>
    /\ UNCHANGED <<dryRun, hasConfirm, fsVars, iteration, iterStart, apiKey, hasCommand,
                   hasPlan, nActions, implArtifact, p3, rbQueue, rbInput, disk0>>

\* applyActions returned: the artifact is stored and the Success result
\* carries the mutations
implementerReturn ==
    /\ rpc = "applyActions"
    /\ idx = nActions
    /\ implArtifact' = Some(nActions)
    /\ results' = Append(results,
                      AgentResult("implementer", "success", Some(mutations), FALSE))
    /\ p3' = NoPhase3
    /\ last' = NoLast
    /\ rpc' = "phase3"
    /\ completions' = 0
    /\ UNCHANGED <<retryCount, lastRaw, failure, jsonVars, concVars, diffVars>>
    /\ events' = events \o finished("implementer") \o started("analyzer")
                     \o started("test-generator") \o started("optimizer")
    /\ UNCHANGED <<disk, dryRun, hasConfirm, fsVars, iteration, iterStart, apiKey,
                   hasCommand, hasPlan, nActions, idx, mutations, rbQueue, rbInput,
                   committed, disk0>>

(***************************************************************************)
(* Specification SpecImpl: one ImplementerAgent.run over every payload of  *)
(* at most MaxActions actions drawn from ImplActions, one action revealed  *)
(* per loop iteration                                                      *)
(***************************************************************************)
pathA   == Rel(<<"a">>)
pathB   == Rel(<<"b">>)
pathOut == Rel(<<"..", "o">>)
\* ".", which resolves to the workspace root
pathRoot == Rel(<<".">>)

\* "a b", the content of a
textAB == Str3("a", " ", "b")
textX  == Str1("x")

Write(path, content) ==
    Action("write_file", path, content, None, None, None, None, None, None)
Delete(path) ==
    Action("delete_path", path, None, None, None, None, None, None, None)
Modify(path, content, patch, mode, anchor, replacement, snippet, ensure) ==
    Action("modify_file", path, content, patch, mode, anchor, replacement, snippet, ensure)

\* a non-blank and a blank patch text
patchText  == Some(<<"@", "@">>)
patchBlank == Some(<<" ", "\n">>)

\* the anchors of the payloads
anchorFound   == AnchorSpec(Some(Str1("a")), None)
anchorMissing == AnchorSpec(Some(Str1("c")), None)
anchorTrimmed == AnchorSpec(Some(<<" ", "a", "\n">>), None)
anchorLoose   == AnchorSpec(Some(<<"A", " ", " ", "B">>), None)
anchorTail    == AnchorSpec(Some(Str1("b")), None)
anchorRegex   == AnchorSpec(Some(Str1("c")), Regex("literal", Str1("b")))
anchorBadRegex == AnchorSpec(Some(Str1("c")), Regex("invalid", Str1("(")))
anchorEmptyRegex == AnchorSpec(None, Regex("empty", <<"z", "*">>))
anchorStarRegex == AnchorSpec(Some(Str1("a")), Regex("empty", <<"b", "*">>))
anchorBoth    == AnchorSpec(Some(Str1("a")), Regex("literal", Str1("b")))

ImplActions ==
    { Write(pathA, Some(textX)),
      Write(pathB, Some(textAB)),
      Write(pathA, None),
      Write(pathOut, Some(textX)),
      Write(Rel(<<>>), Some(textX)),
      Write(pathRoot, Some(textX)),
      Delete(pathA),
      Delete(pathRoot),
      Delete(pathOut),
      Action("rename_file", pathA, None, None, None, None, None, None, None),
      Modify(pathA, None, None, Some("insert_after"), anchorFound, None, Some(textX), None),
      Modify(pathA, None, patchText, Some("replace"), anchorFound, Some(textX), None, None),
      Modify(pathA, None, None, None, anchorMissing, None, Some(textX), None),
      Modify(pathA, None, patchText, None, anchorMissing, None, Some(textX), None),
      Modify(pathA, Some(textX), patchBlank, None, anchorMissing, Some(textX), None, None),
      Modify(pathA, None, None, Some("insert_before"), anchorTrimmed, None, Some(textX), None),
      Modify(pathA, None, None, Some("insert_before"), anchorTail, None, Some(textX), None),
      Modify(pathB, None, None, Some("replace"), anchorLoose, Some(textX), None, None),
      Modify(pathA, None, None, None, anchorRegex, None, Some(textX), None),
      Modify(pathA, None, None, None, anchorBadRegex, None, Some(textX), None),
      Modify(pathA, None, patchText, None, anchorEmptyRegex, None, Some(textX), None),
      Modify(pathA, None, None, None, anchorStarRegex, None, Some(textX), None),
      Modify(pathB, None, None, Some("replace"), anchorBoth, Some(textX), None, None),
      Modify(pathA, None, patchText, Some("replace"), anchorFound, None, Some(textX), None),
      Modify(pathA, None, patchText, Some("insert_after"), anchorFound, None, Some(textX),
             Some(Str1("z"))),
      Modify(pathA, None, None, Some("insert_after"), anchorFound, None, Some(textX),
             Some(Str1("z"))),
      Modify(pathA, None, None, Some("insert_after"), anchorFound, None, Some(textX),
             Some(<<"a", "x">>)),
      Modify(pathOut, None, patchText, None, anchorFound, None, Some(textX), None),
      Modify(pathA, Some(textAB), patchBlank, None, anchorFound, None, None, None),
      Modify(pathA, None, patchText, None, None, None, None, None),
      Modify(pathB, Some(textX), None, None, None, None, None, None),
      Modify(pathA, None, patchBlank, None, None, None, None, None) }

\* n copies of an empty action object, separated by commas
RECURSIVE emptyActions(_)
emptyActions(n) ==
    IF n = 0 THEN <<>>
    ELSE IF n = 1 THEN <<"{", "}">>
    ELSE <<"{", "}", ",">> \o emptyActions(n - 1)

\* the text of a payload of n actions; the fields of the actions are left
\* open, each iteration of applyActions is given its action
payloadText(n) == <<"{">> \o actionsKey \o <<":", "[">> \o emptyActions(n) \o <<"]", "}">>

\* a response that is no JSON and longer than the snippet of the error
longRaw == [i \in 1..(snippetLength + 1) |-> "x"]

\* what client.complete can give: it throws (None), or a raw text that is a
\* payload, a payload cut before its closers, an object without actions,
\* or no JSON at all
Responses ==
    {None} \cup { Some(payloadText(n)) : n \in 0..MaxActions }
           \cup { Some(SubSeq(payloadText(1), 1, Len(payloadText(1)) - 2)),
                  Some(<<"{", "}">>),
                  Some(<<"ldquo", "x", "\t">>),
                  Some(longRaw) }

\* what jsonrepair can make of a text that is not JSON
Fixes == { None, Some(payloadText(0)) }

\* what the diff ladder can give: exhausted, or a new content
DiffResults == { None, Some(Str1("p")) }

WorkspaceAB == (root :> Dir) @@ (<<"w", "a">> :> File(textAB))

\* a content with a CRLF line end and a bare LF line end
textCRLF == <<"A", "\r", "\n", "b", "\n", "b">>

ImplInitDisks ==
    { OutsideDisk @@ WorkspaceAB,
      OutsideDisk @@ WorkspaceAB @@ (<<"w", "b">> :> File(<<"A", "\n", "b">>)),
      OutsideDisk @@ WorkspaceAB @@ (<<"w", "b">> :> File(textCRLF)) }

InitImpl ==
    /\ disk \in ImplInitDisks
    /\ disk0 = disk
    /\ dryRun \in BOOLEAN
    /\ hasConfirm \in BOOLEAN
    /\ fsPc = "idle" /\ pend = None /\ ret = NoRet
    /\ rpc = "implementer"
    /\ iteration = 1
    /\ iterStart = 0
    /\ apiKey \in BOOLEAN
    /\ hasCommand = FALSE
    /\ hasPlan \in BOOLEAN
    /\ nActions = 0
    /\ idx = 0
    /\ mutations = <<>>
    /\ implArtifact = None
    /\ p3 = NoPhase3
    /\ results = <<>>
    /\ rbQueue = <<>>
    /\ rbInput = None
    /\ committed = <<>>
    /\ last = NoLast
    /\ LlmIdle
    /\ JsonIdle
    /\ ConcIdle
    /\ DiffIdle
    /\ events = <<>>

NextImpl ==
    \/ \E llm \in Responses, fix \in Fixes : implementerBegin(llm, fix)
    \/ \E llm \in Responses, fix \in Fixes : repairAttempt(llm, fix)
    \/ \E action \in ImplActions, diffResult \in DiffResults, answer \in BOOLEAN :
          applyActionStep(action, diffResult, answer)
    \/ implementerReturn

SpecImpl == InitImpl /\ [][NextImpl]_vars

(***************************************************************************)
(* The workflow run: Orchestrator.run with iterative refinement, the       *)
(* five-phase pipeline of each iteration, and the rollback decision of     *)
(* runWorkflow                                                             *)
(***************************************************************************)
\* iterativeRefinement.maxIterations as the UI configures the orchestrator
maxIterations == 2

\* the optimizer skips changes of fewer lines
minChangedLines == 20

\* the results of the current iteration
iterationResults == SubSeq(results, iterStart + 1, Len(results))

\* Array.prototype.find over a list already filtered by the test: the
\* first hit, or None
find(hits) == IF hits = <<>> THEN None ELSE Some(Head(hits))

\* results.find(r => r.agent === agent)
findAgent(rs, agent) == find(SelectSeq(rs, LAMBDA r : r.agent = agent))

\* results.flatMap(res => res.mutations ?? [])
RECURSIVE flatMutations(_)
flatMutations(rs) ==
    IF rs = <<>> THEN <<>>
    ELSE (IF Head(rs).mutations = None THEN <<>> ELSE Head(Head(rs).mutations))
         \o flatMutations(Tail(rs))

\* PlannerAgent.run: the plan is replaced only when the completion arrives
plannerRun(llmOk, emptyPlan) ==
    /\ rpc = "planner"
    /\ IF apiKey /\ llmOk
       THEN /\ hasPlan' = ~emptyPlan
            /\ results' = Append(results, AgentResult("planner", "success", None, FALSE))
       ELSE /\ results' = Append(results, AgentResult("planner", "failure", None, FALSE))
            /\ UNCHANGED hasPlan
    /\ rpc' = "implementer"
    /\ UNCHANGED <<llmVars, jsonVars, concVars, diffVars>>
    /\ events' = events \o finished("planner") \o started("implementer")
    /\ UNCHANGED <<disk, dryRun, hasConfirm, fsVars, iteration, iterStart, apiKey,
                   hasCommand, nActions, idx, mutations, implArtifact, p3, rbQueue,
                   rbInput, committed, disk0, last>>

\* a phase-3 agent may start: phase 3 is on and the agent has not returned
phase3Pending(agent) == rpc = "phase3" /\ p3[agent] = None

phase3Frame ==
    UNCHANGED <<dryRun, hasConfirm, fsVars, rpc, iteration, iterStart, apiKey,
                hasCommand, hasPlan, nActions, idx, mutations, implArtifact, results,
                rbQueue, rbInput, disk0, last, llmVars, jsonVars, concVars, diffVars>>

\* AnalyzerAgent.run: reads the changed files, writes nothing
analyzerRun(llmOk, critical) ==
    /\ phase3Pending("analyzer")
    /\ LET status == IF implArtifact = None THEN "skipped"
                     ELSE IF Head(implArtifact) = 0 THEN "skipped"
                     ELSE IF ~apiKey THEN "failure"
                     ELSE IF llmOk THEN "success" ELSE "failure"
       IN  p3' = [p3 EXCEPT !.analyzer =
                     Some(AgentResult("analyzer", status, None,
                                      status = "success" /\ critical))]
    /\ events' = events \o finished("analyzer")
    /\ UNCHANGED <<disk, committed>>
    /\ phase3Frame

\* a test file of the test generator's payload
TestSpec(path, content) == [path |-> path, content |-> content]

\* the loop over payload.tests: every write is in its own try/catch and its
\* FileMutation is dropped; o is what the write of the first test did
RECURSIVE writeTests(_, _, _, _, _)
writeTestsJoin(o, rest) ==
    [disk |-> rest.disk, applied |-> appliedOf(o.mutation) \o rest.applied]

writeTestsFrom(o, tests, answers, dry, conf) ==
    writeTestsJoin(o, writeTests(o.disk, Tail(tests), Tail(answers), dry, conf))

writeTests(d, tests, answers, dry, conf) ==
    IF tests = <<>> THEN [disk |-> d, applied |-> <<>>]
    ELSE writeTestsFrom(writeOutcome(d, Head(tests).path, Head(tests).content,
                                     dry, conf, Head(answers)),
                        tests, answers, dry, conf)

\* TestGeneratorAgent.run; mode is "skip" for a request that excludes
\* tests, "llm-error" for a completion that fails, "ok" otherwise
testGeneratorRun(mode, tests, answers) ==
    /\ phase3Pending("testGenerator")
    /\ IF implArtifact = None \/ (implArtifact # None /\ Head(implArtifact) = 0)
          \/ mode = "skip"
       THEN /\ p3' = [p3 EXCEPT !.testGenerator =
                         Some(AgentResult("test-generator", "skipped", None, FALSE))]
            /\ UNCHANGED <<disk, committed>>
       ELSE IF mode = "llm-error"
       THEN /\ p3' = [p3 EXCEPT !.testGenerator =
                         Some(AgentResult("test-generator", "failure", None, FALSE))]
            /\ UNCHANGED <<disk, committed>>
       ELSE /\ disk' = writeTests(disk, tests, answers, dryRun, hasConfirm).disk
            /\ committed' = committed
                             \o writeTests(disk, tests, answers, dryRun, hasConfirm).applied
            /\ p3' = [p3 EXCEPT !.testGenerator =
                         Some(AgentResult("test-generator", "success", None, FALSE))]
    /\ events' = events \o finished("test-generator")
    /\ phase3Frame

\* String.prototype.split("\n").length || 0 of an optional string
lineCount(opt) ==
    IF opt = None THEN 0
    ELSE 1 + Cardinality({ i \in 1..Len(Head(opt)) : Head(opt)[i] = "\n" })

abs(n) == IF n < 0 THEN 0 - n ELSE n

RECURSIVE totalChangedLines(_)
totalChangedLines(muts) ==
    IF muts = <<>> THEN 0
    ELSE abs(lineCount(Head(muts).after) - lineCount(Head(muts).before))
         + totalChangedLines(Tail(muts))

\* OptimizerAgent.run: looks at the mutations of the first result of the
\* history that carries any
optimizerRun(llmOk, critical) ==
    /\ phase3Pending("optimizer")
    /\ LET first  == find(SelectSeq(results, LAMBDA r : r.mutations # None))
           muts   == IF first = None THEN <<>> ELSE Head(Head(first).mutations)
           status == IF muts = <<>> THEN "skipped"
                     ELSE IF totalChangedLines(muts) < minChangedLines THEN "skipped"
                     ELSE IF llmOk THEN "success" ELSE "failure"
       IN  p3' = [p3 EXCEPT !.optimizer =
                     Some(AgentResult("optimizer", status, None,
                                      status = "success" /\ critical))]
    /\ events' = events \o finished("optimizer")
    /\ UNCHANGED <<disk, committed>>
    /\ phase3Frame

\* Promise.all resolving as soon as one of the three promises has resolved
phase3JoinAny ==
    /\ rpc = "phase3"
    /\ p3.analyzer # None \/ p3.testGenerator # None \/ p3.optimizer # None
    /\ results' = results \o p3.analyzer \o p3.testGenerator \o p3.optimizer
    /\ p3' = NoPhase3
    /\ rpc' = "validator"
    /\ UNCHANGED <<llmVars, jsonVars, concVars, diffVars>>
    /\ events' = events \o started("validator")
    /\ UNCHANGED <<disk, dryRun, hasConfirm, fsVars, iteration, iterStart, apiKey,
                   hasCommand, hasPlan, nActions, idx, mutations, implArtifact,
                   rbQueue, rbInput, committed, disk0, last>>

\* Promise.all resolved: the three results are pushed in the order of the
\* agents' array
phase3Join ==
    /\ rpc = "phase3"
    /\ p3.analyzer # None /\ p3.testGenerator # None /\ p3.optimizer # None
    /\ results' = results \o p3.analyzer \o p3.testGenerator \o p3.optimizer
    /\ p3' = NoPhase3
    /\ rpc' = "validator"
    /\ UNCHANGED <<llmVars, jsonVars, concVars, diffVars>>
    /\ events' = events \o started("validator")
    /\ UNCHANGED <<disk, dryRun, hasConfirm, fsVars, iteration, iterStart, apiKey,
                   hasCommand, hasPlan, nActions, idx, mutations, implArtifact,
                   rbQueue, rbInput, committed, disk0, last>>

\* what ShellTool.run can do
ShellOutcomes == { "exit0", "nonzero", "spawn-error" }

\* ShellTool.run resolves for exit code 0 and rejects otherwise
shellRejects(shellOutcome) == shellOutcome # "exit0"

\* ValidatorAgent.run: Skipped without a command, Success when the shell
\* resolves, Failure when it rejects
validatorRun(shellOutcome) ==
    /\ rpc = "validator"
    /\ IF ~hasCommand
       THEN /\ results' = Append(results, AgentResult("validator", "skipped", None, FALSE))
            /\ last' = NoLast
       ELSE /\ results' = Append(results,
                   AgentResult("validator",
                               IF shellRejects(shellOutcome) THEN "failure" ELSE "success",
                               None, FALSE))
            /\ last' = [NoLast EXCEPT !.shell = shellOutcome]
    /\ rpc' = "reporter"
    /\ UNCHANGED <<llmVars, jsonVars, concVars, diffVars>>
    /\ events' = events \o finished("validator") \o started("reporter")
    /\ UNCHANGED <<disk, dryRun, hasConfirm, fsVars, iteration, iterStart, apiKey,
                   hasCommand, hasPlan, nActions, idx, mutations, implArtifact, p3,
                   rbQueue, rbInput, committed, disk0>>

\* ReporterAgent.run ends the pipeline of the iteration
reporterRun ==
    /\ rpc = "reporter"
    /\ results' = Append(results, AgentResult("reporter", "success", None, FALSE))
    /\ nActions' = 0 /\ idx' = 0 /\ mutations' = <<>>
    /\ last' = NoLast
    /\ rpc' = "quality"
    /\ completions' = 0 /\ retryCount' = 0 /\ lastRaw' = None /\ failure' = None
    /\ UNCHANGED <<jsonVars, concVars, diffVars>>
    /\ events' = events \o finished("reporter")
    /\ UNCHANGED <<disk, dryRun, hasConfirm, fsVars, iteration, iterStart, apiKey,
                   hasCommand, hasPlan, implArtifact, p3, rbQueue, rbInput,
                   committed, disk0>>

\* the quality criteria of an iteration
qualityMet(rs) ==
    LET validationResult == findAgent(rs, "validator")
        optimizerResult  == findAgent(rs, "optimizer")
        analyzerResult   == findAgent(rs, "analyzer")
        validationPassed == validationResult # None
                            /\ Head(validationResult).status = "success"
        noCriticalIssues == /\ ~(optimizerResult # None /\ Head(optimizerResult).critical)
                            /\ ~(analyzerResult # None /\ Head(analyzerResult).critical)
    IN  validationPassed /\ noCriticalIssues

\* the while loop of runIterativeRefinement: its head ...
loopHead ==
    /\ rpc = "loop"
    /\ IF iteration < maxIterations
       THEN /\ iteration' = iteration + 1
            /\ iterStart' = Len(results)
            /\ rpc' = "planner"
            /\ events' = started("planner")
       ELSE /\ rpc' = "workflowTail"
            /\ UNCHANGED <<iteration, iterStart, events>>
    /\ UNCHANGED <<llmVars, jsonVars, concVars, diffVars>>
    /\ UNCHANGED <<disk, dryRun, hasConfirm, fsVars, apiKey, hasCommand, hasPlan,
                   nActions, idx, mutations, implArtifact, p3, results, rbQueue,
                   rbInput, committed, disk0, last>>

\* the loop going on whatever the quality criteria say
qualityCheckLoops ==
    /\ rpc = "quality"
    /\ rpc' = "loop"
    /\ UNCHANGED <<llmVars, jsonVars, concVars, diffVars>>
    /\ events' = <<>>
    /\ UNCHANGED <<disk, dryRun, hasConfirm, fsVars, iteration, iterStart, apiKey,
                   hasCommand, hasPlan, nActions, idx, mutations, implArtifact, p3,
                   results, rbQueue, rbInput, committed, disk0, last>>

\* ... and the check after the pipeline, which breaks out when met
qualityCheck ==
    /\ rpc = "quality"
    /\ rpc' = IF qualityMet(iterationResults) THEN "workflowTail" ELSE "loop"
    /\ UNCHANGED <<llmVars, jsonVars, concVars, diffVars>>
    /\ events' = <<>>
    /\ UNCHANGED <<disk, dryRun, hasConfirm, fsVars, iteration, iterStart, apiKey,
                   hasCommand, hasPlan, nActions, idx, mutations, implArtifact, p3,
                   results, rbQueue, rbInput, committed, disk0, last>>

(***************************************************************************)
(* rollbackMutations and the tail of runWorkflow                           *)
(***************************************************************************)
\* the keys of a Map filled by set() in the order of muts: each path once,
\* at the place of its first insertion
RECURSIVE mapKeys(_, _)
mapKeys(muts, seen) ==
    IF muts = <<>> THEN <<>>
    ELSE IF Head(muts).path \in seen THEN mapKeys(Tail(muts), seen)
    ELSE <<Head(muts).path>> \o mapKeys(Tail(muts), seen \cup {Head(muts).path})

\* Map.set overwrites: the value of a key is the last mutation of that path
latestOf(muts, path) ==
    LET hits == SelectSeq(muts, LAMBDA m : m.path = path) IN hits[Len(hits)]

\* Array.from(latestByPath.values())
latestByPath(muts) ==
    LET keys == mapKeys(muts, {}) IN
    [i \in 1..Len(keys) |-> latestOf(muts, keys[i])]

reverse(seq) == [i \in 1..Len(seq) |-> seq[Len(seq) + 1 - i]]

\* writeFile without the mkdir of the parent
restoreFileFlat(d, target, content) == writeFile(d, target, content).disk

\* mkdir of the parent, then writeFile; a rejection is caught and logged
restoreFile(d, target, content) ==
    LET m == mkdir(d, dirname(target)) IN
    IF m.threw THEN d ELSE writeFile(m.disk, target, content).disk

\* the body of the rollback loop for one mutation
replay(d, mutation) ==
    LET target == root \o mutation.path IN
    IF mutation.action = "write"
    THEN IF mutation.before # None
         THEN restoreFile(d, target, Head(mutation.before))
         ELSE rmFile(d, target).disk
    ELSE IF mutation.action = "delete" /\ mutation.before # None
    THEN restoreFile(d, target, Head(mutation.before))
    ELSE d

\* a loop that stops after its first iteration
replayHeadOnly(d, ordered) == IF ordered = <<>> THEN d ELSE replay(d, Head(ordered))

RECURSIVE replayAll(_, _)
replayAll(d, ordered) ==
    IF ordered = <<>> THEN d
    ELSE replayAll(replay(d, Head(ordered)), Tail(ordered))

\* rollbackMutations(workspaceRoot, mutations)
rollbackMutations(d, muts) == replayAll(d, reverse(latestByPath(muts)))

\* a failure of any agent taken for a failed validation
anyFailed(rs) ==
    \E i \in 1..Len(rs) : rs[i].status = "failure"

\* outcome.results.find(validator with status Failure)
validatorFailed(rs) ==
    find(SelectSeq(rs, LAMBDA r : r.agent = "validator" /\ r.status = "failure")) # None

\* the tail of runWorkflow: rollback after a failed validation
workflowTail ==
    /\ rpc = "workflowTail"
    /\ LET appliedMutations == appliedOf(flatMutations(results)) IN
       IF ~dryRun /\ validatorFailed(results) /\ appliedMutations # <<>>
       THEN /\ rbInput' = Some(appliedMutations)
            /\ rbQueue' = reverse(latestByPath(appliedMutations))
            /\ disk' = rollbackMutations(disk, appliedMutations)
       ELSE UNCHANGED <<disk, rbInput, rbQueue>>
    /\ rpc' = "done"
    /\ UNCHANGED <<llmVars, jsonVars, concVars, diffVars, events>>
    /\ UNCHANGED <<dryRun, hasConfirm, fsVars, iteration, iterStart, apiKey, hasCommand,
                   hasPlan, nActions, idx, mutations, implArtifact, p3, results,
                   committed, disk0, last>>

(***************************************************************************)
(* Specification Spec: one workflow run on the workspace {a}               *)
(***************************************************************************)
pathT == Rel(<<"t">>)

\* the implementer's actions of a run
PipeActions ==
    { Write(pathA, Some(textX)),
      Modify(pathA, None, None, None, anchorMissing, None, Some(textX), None) }

\* the test generator's payloads
TestSpecs == { TestSpec(pathT, textX) }

TestLists == UNION { [1..n -> TestSpecs] : n \in 0..MaxTests }

\* the completions of a workflow run: a payload or a text that is no JSON;
\* every repair completion is no JSON either
PipeResponses == { Some(payloadText(n)) : n \in 0..MaxActions } \cup { Some(<<"x">>) }
PipeRepairs == { Some(<<"x">>) }

Init ==
    /\ disk = OutsideDisk @@ WorkspaceAB
    /\ disk0 = disk
    /\ dryRun \in BOOLEAN
    /\ hasConfirm \in BOOLEAN
    /\ fsPc = "idle" /\ pend = None /\ ret = NoRet
    /\ rpc = "loop"
    /\ iteration = 0
    /\ iterStart = 0
    /\ apiKey \in BOOLEAN
    /\ hasCommand \in BOOLEAN
    /\ hasPlan = FALSE
    /\ nActions = 0
    /\ idx = 0
    /\ mutations = <<>>
    /\ implArtifact = None
    /\ p3 = NoPhase3
    /\ results = <<>>
    /\ rbQueue = <<>>
    /\ rbInput = None
    /\ committed = <<>>
    /\ last = NoLast
    /\ LlmIdle
    /\ JsonIdle
    /\ ConcIdle
    /\ DiffIdle
    /\ events = <<>>

Next ==
    \/ loopHead
    \/ \E llmOk \in BOOLEAN, emptyPlan \in BOOLEAN : plannerRun(llmOk, emptyPlan)
    \/ \E llm \in PipeResponses : implementerBegin(llm, None)
    \/ \E llm \in PipeRepairs : repairAttempt(llm, None)
    \/ \E action \in PipeActions, answer \in BOOLEAN :
          applyActionStep(action, None, answer)
    \/ implementerReturn
    \/ \E critical \in BOOLEAN : analyzerRun(TRUE, critical)
    \/ \E mode \in {"skip", "ok"}, tests \in TestLists :
          \E answers \in [1..Len(tests) -> BOOLEAN] : testGeneratorRun(mode, tests, answers)
    \/ optimizerRun(TRUE, FALSE)
    \/ phase3Join
    \/ \E shellOutcome \in ShellOutcomes : validatorRun(shellOutcome)
    \/ reporterRun
    \/ qualityCheck
    \/ workflowTail

Spec == Init /\ [][Next]_vars

(***************************************************************************)
(* Specification SpecJson: the recovery engine applied to one text.  Init  *)
(* draws the text: a JSON document, a document with one closing bracket    *)
(* deleted, or a document cut before some of its final closing brackets.   *)
(***************************************************************************)
\* largest nesting depth of the generated documents
MaxDepth == 2

literal(s) == <<"\"">> \o s \o <<"\"">>

\* the documents without brackets: a number, a string, and a string that
\* holds a bracket and an escaped quote
Atoms == { <<"1">>, literal(<<"x">>), literal(<<"]", "\\", "\"">>) }

\* a value inside an array or an object, first or last, tight or spaced
wraps(v) ==
    { <<"[">> \o v \o <<"]">>,
      <<"[", " ">> \o v \o <<" ", "]">>,
      <<"[">> \o v \o <<",", "1", "]">>,
      <<"{">> \o literal(<<"a">>) \o <<":">> \o v \o <<"}">>,
      <<"{">> \o literal(<<"b">>) \o <<":", "[", "]", ",">> \o literal(<<"a">>)
          \o <<":">> \o v \o <<"}">> }

\* the documents nested at most d deep
RECURSIVE Nested(_)
Nested(d) ==
    IF d = 0 THEN Atoms
    ELSE Atoms \cup UNION { wraps(v) : v \in Nested(d - 1) }

\* an action object with one string field `c`
contentAction(s) == <<"{">> \o literal(<<"c">>) \o <<":">> \o literal(s) \o <<"}">>

\* an action object with a `patches` field, a `c` field and maybe a `patch`
patchesAction(patches, patch) ==
    <<"{">> \o literal(sPatches) \o <<":">> \o patches \o <<",">>
        \o literal(<<"c">>) \o <<":">> \o literal(<<"z">>)
        \o (IF patch = None THEN <<>>
            ELSE <<",">> \o literal(sPatch) \o <<":">> \o literal(Head(patch)))
        \o <<"}">>

\* string values with typographic characters, with an escaped tab and with
\* plain text
TypographicStrings ==
    { <<"ldquo", "x", "rdquo">>, <<"a", "ndash", "b">>, <<"a", "mdash", "b">>,
      <<"a", "nbsp", "b">>, <<"a", "zwsp", "b">>, <<"lsquo", "x", "rsquo">>,
      <<"a", "\\", "t", "b">>, <<"a", " ", "b">> }

\* action objects without `patches`
PlainActions == { contentAction(s) : s \in TypographicStrings } \cup { <<"{", "}">> }

\* action objects with `patches`: two patches, one patch next to a `patch`
\* field, and an empty list
PatchesActions ==
    { patchesAction(<<"[">> \o literal(<<"x">>) \o <<",">> \o literal(<<"y">>) \o <<"]">>, None),
      patchesAction(<<"[">> \o literal(<<"x">>) \o <<"]">>, Some(<<"q">>)),
      patchesAction(<<"[", "]">>, None) }

\* the texts of n action objects separated by commas
RECURSIVE joined(_)
joined(actions) ==
    IF actions = <<>> THEN <<>>
    ELSE IF Len(actions) = 1 THEN Head(actions)
    ELSE Head(actions) \o <<",">> \o joined(Tail(actions))

payloadOfActions(actions) ==
    <<"{">> \o actionsKey \o <<":", "[">> \o joined(actions) \o <<"]", "}">>

\* payloads of up to MaxActions actions, one of them at most with `patches`
PayloadDocs ==
    { payloadOfActions(actions) :
        actions \in UNION { [1..n -> PlainActions \cup PatchesActions] : n \in 0..MaxActions } }

\* the payload of one write_file action
exampleDoc ==
    <<"{", "\"", "a", "c", "t", "i", "o", "n", "s", "\"", ":", "[", "{",
    "\"", "t", "y", "p", "e", "\"", ":", "\"", "w", "r", "i", "t", "e",
    "_", "f", "i", "l", "e", "\"", ",", "\"", "p", "a", "t", "h", "\"",
    ":", "\"", "a", ".", "t", "x", "t", "\"", ",", "\"", "c", "o", "n",
    "t", "e", "n", "t", "\"", ":", "\"", "x", "\"", "}", "]", "}">>

Documents == Nested(MaxDepth) \cup PayloadDocs \cup {exampleDoc}

\* position i of a document lies inside a string literal
insideString(t, i) ==
    Cardinality({ h \in 1..(i - 1) : t[h] = "\"" /\ plainAt(t, 1, h) }) % 2 = 1

\* the positions of the closing brackets of a document
closerPositions(t) ==
    { i \in 1..Len(t) : t[i] \in {"}", "]"} /\ ~insideString(t, i) }

\* the document without the character at position i
without(t, i) == SubSeq(t, 1, i - 1) \o SubSeq(t, i + 1, Len(t))

\* the lengths of the final runs of closing brackets and white space that
\* end a document and hold a bracket
closerSuffixes(t) ==
    { k \in 1..Len(t) :
        /\ \A i \in (Len(t) - k + 1)..Len(t) :
              (t[i] \in {"}", "]"} /\ ~insideString(t, i)) \/ isWhitespace(t[i])
        /\ t[Len(t) - k + 1] \in {"}", "]"} }

\* an input of the engine: the text, the document it was made from, how,
\* and what jsonrepair answers
JsonInput(text, doc, kind, at, fix) ==
    [text |-> text, doc |-> doc, kind |-> kind, at |-> at, fix |-> fix]

JsonInputs ==
    { JsonInput(d, d, "whole", 0, fix) : d \in Documents, fix \in Fixes }
    \cup UNION { { JsonInput(without(d, i), d, "deleted", i, None) : i \in closerPositions(d) } :
                 d \in Nested(MaxDepth) \cup {exampleDoc} }
    \cup UNION { { JsonInput(SubSeq(d, 1, Len(d) - k), d, "cut", k, None) : k \in closerSuffixes(d) } :
                 d \in Nested(MaxDepth) \cup {exampleDoc} }

InitJson ==
    /\ disk = OutsideDisk @@ WorkspaceAB
    /\ dryRun = FALSE
    /\ hasConfirm = FALSE
    /\ fsPc = "idle" /\ pend = None /\ ret = NoRet
    /\ RunIdle
    /\ jin \in { Some(i) : i \in JsonInputs }
    /\ jout = None
    /\ ConcIdle
    /\ DiffIdle
    /\ events = <<>>

jsonFrame == UNCHANGED <<disk, dryRun, hasConfirm, fsVars, runVars, llmVars, jin, concVars, diffVars, events>>

\* parsePayload is called on the text
parsePayloadCall ==
    /\ jin # None /\ jout = None
    /\ jout' = Some([op |-> "parsePayload",
                     result |-> parsePayloadSafe(Head(jin).text, Head(jin).fix)])
    /\ jsonFrame

\* balanceJson is called on the text
balanceJsonCall ==
    /\ jin # None /\ jout = None
    /\ jout' = Some([op |-> "balanceJson", result |-> balanceJson(Head(jin).text)])
    /\ jsonFrame

NextJson == parsePayloadCall \/ balanceJsonCall

SpecJson == InitJson /\ [][NextJson]_vars

(***************************************************************************)
(* Specification SpecRb: an agent records the mutations of its             *)
(* FileSystemTool calls, the validator fails, and runWorkflow rolls back;  *)
(* the loop of rollbackMutations is taken one mutation at a time.          *)
(***************************************************************************)
\* the most FileSystemTool calls the agent makes
MaxMutations == 3

\* the paths the agent writes and deletes
RbTargets == { Rel(<<"a">>), Rel(<<"b">>), Rel(<<"d">>), Rel(<<"d", "c">>) }

\* the workspaces the run starts on: file a; file a and file d/c; file a
\* and a file d
RbInitDisks ==
    { OutsideDisk @@ WorkspaceAB,
      OutsideDisk @@ WorkspaceAB @@ (<<"w", "d">> :> Dir)
                  @@ (<<"w", "d", "c">> :> File(<<"y">>)),
      OutsideDisk @@ WorkspaceAB @@ (<<"w", "d">> :> File(<<"z">>)) }

InitRb ==
    /\ disk \in RbInitDisks
    /\ disk0 = disk
    /\ dryRun = FALSE
    /\ hasConfirm \in BOOLEAN
    /\ fsPc = "idle" /\ pend = None /\ ret = NoRet
    /\ rpc = "recording"
    /\ iteration = 1
    /\ iterStart = 0
    /\ apiKey = TRUE
    /\ hasCommand = TRUE
    /\ hasPlan = FALSE
    /\ nActions = 0
    /\ idx = 0
    /\ mutations = <<>>
    /\ implArtifact = None
    /\ p3 = NoPhase3
    /\ results = <<>>
    /\ rbQueue = <<>>
    /\ rbInput = None
    /\ committed = <<>>
    /\ last = NoLast
    /\ LlmIdle
    /\ JsonIdle
    /\ ConcIdle
    /\ DiffIdle
    /\ events = <<>>

rbFrame ==
    UNCHANGED <<dryRun, hasConfirm, fsVars, iteration, iterStart, apiKey, hasCommand,
                hasPlan, nActions, idx, implArtifact, p3, committed, disk0, last,
                llmVars, jsonVars, concVars, diffVars, events>>

\* the agent keeps the mutation a FileSystemTool call returned
recorded(o) ==
    /\ disk' = o.disk
    /\ mutations' = IF o.mutation = None THEN mutations
                    ELSE Append(mutations, Head(o.mutation))
    /\ UNCHANGED <<rpc, results, rbQueue, rbInput>>
    /\ rbFrame

\* mutations.push(await fsTool.write(path, content))
recordWrite(targetPath, content, answer) ==
    /\ rpc = "recording"
    /\ Len(mutations) < MaxMutations
    /\ recorded(writeOutcome(disk, targetPath, content, dryRun, hasConfirm, answer))

\* mutations.push(await fsTool.delete(path))
recordDelete(targetPath, answer) ==
    /\ rpc = "recording"
    /\ Len(mutations) < MaxMutations
    /\ recorded(deleteOutcome(disk, targetPath, dryRun, hasConfirm, answer))

\* the agent returns its mutations and the validator reports a failure
validationFails ==
    /\ rpc = "recording"
    /\ results' = <<AgentResult("implementer", "success", Some(mutations), FALSE),
                    AgentResult("validator", "failure", None, FALSE)>>
    /\ rpc' = "workflowTail"
    /\ UNCHANGED <<disk, mutations, rbQueue, rbInput>>
    /\ rbFrame

\* the tail of runWorkflow up to the loop of rollbackMutations: the applied
\* mutations are collected and `ordered` is built
rollbackCall ==
    /\ rpc = "workflowTail"
    /\ IF ~dryRun /\ validatorFailed(results) /\ appliedOf(flatMutations(results)) # <<>>
       THEN /\ rbInput' = Some(appliedOf(flatMutations(results)))
            /\ rbQueue' = reverse(latestByPath(appliedOf(flatMutations(results))))
            /\ rpc' = "rollback"
       ELSE /\ rpc' = "done"
            /\ UNCHANGED <<rbInput, rbQueue>>
    /\ UNCHANGED <<disk, mutations, results>>
    /\ rbFrame

\* an iteration that gives the rest of the loop up when it restores nothing
replayStepFatal ==
    /\ rpc = "rollback"
    /\ rbQueue # <<>>
    /\ disk' = replay(disk, Head(rbQueue))
    /\ rbQueue' = IF replay(disk, Head(rbQueue)) = disk THEN <<>> ELSE Tail(rbQueue)
    /\ UNCHANGED <<rpc, mutations, results, rbInput>>
    /\ rbFrame

\* one iteration of `for (const mutation of ordered)`
replayStep ==
    /\ rpc = "rollback"
    /\ rbQueue # <<>>
    /\ disk' = replay(disk, Head(rbQueue))
    /\ rbQueue' = Tail(rbQueue)
    /\ UNCHANGED <<rpc, mutations, results, rbInput>>
    /\ rbFrame

\* the loop is over: "Rollback complete."
rollbackReturn ==
    /\ rpc = "rollback"
    /\ rbQueue = <<>>
    /\ rpc' = "done"
    /\ UNCHANGED <<disk, mutations, results, rbQueue, rbInput>>
    /\ rbFrame

NextRb ==
    \/ \E t \in RbTargets, answer \in BOOLEAN : recordWrite(t, <<"x">>, answer)
    \/ \E t \in RbTargets, answer \in BOOLEAN : recordDelete(t, answer)
    \/ validationFails
    \/ rollbackCall
    \/ replayStep
    \/ rollbackReturn

SpecRb == InitRb /\ [][NextRb]_vars

(***************************************************************************)
(* Specification SpecP3: the parallel phase of one pipeline pass.  The     *)
(* three agents run under Promise.all and interleave at their awaits: the  *)
(* analyzer between the reads of collectSnapshots, the test generator      *)
(* between its writes and, inside fs.writeFile, between the open that      *)
(* truncates the file and the write of its data.                           *)
(***************************************************************************)
\* the paths of the implementation artifact's actions
ChangedPathLists == { <<pathA>>, <<pathA, pathB>> }

\* the test files the test generator's completion asks for
P3TestSpecs == { TestSpec(Rel(<<"t">>), textX), TestSpec(pathA, <<"y">>) }

P3TestLists == UNION { [1..n -> P3TestSpecs] : n \in 0..MaxTests }

\* the mutation of the implementer: a was "a b" and is "x"
implementedA ==
    [action |-> "write", path |-> <<"a">>, before |-> Some(textAB),
     after |-> Some(textX), applied |-> TRUE, reason |-> ""]

InitP3 ==
    /\ disk = OutsideDisk @@ (root :> Dir) @@ (<<"w", "a">> :> File(textX))
    /\ disk0 = OutsideDisk @@ WorkspaceAB
    /\ dryRun \in BOOLEAN
    /\ hasConfirm \in BOOLEAN
    /\ fsPc = "idle" /\ pend = None /\ ret = NoRet
    /\ rpc = "phase3"
    /\ iteration = 1
    /\ iterStart = 0
    /\ apiKey = TRUE
    /\ hasCommand = FALSE
    /\ hasPlan = TRUE
    /\ aTodo \in ChangedPathLists
    /\ nActions = Len(aTodo)
    /\ idx = Len(aTodo)
    /\ mutations = <<implementedA>>
    /\ implArtifact = Some(Len(aTodo))
    /\ p3 = NoPhase3
    /\ results = <<AgentResult("planner", "success", None, FALSE),
                   AgentResult("implementer", "success", Some(<<implementedA>>), FALSE)>>
    /\ rbQueue = <<>>
    /\ rbInput = None
    /\ committed = <<implementedA>>
    /\ last = NoLast
    /\ LlmIdle
    /\ JsonIdle
    /\ aPc = "idle" /\ snapshots = <<>>
    /\ tPc = "idle" /\ tTodo = <<>> /\ wr = None
    /\ usage = NoUsage /\ received = NoUsage
    /\ DiffIdle
    /\ events = started("planner") \o finished("planner") \o started("implementer")
                  \o finished("implementer") \o started("analyzer")
                  \o started("test-generator") \o started("optimizer")

p3Frame ==
    UNCHANGED <<dryRun, hasConfirm, fsVars, rpc, iteration, iterStart, apiKey,
                hasCommand, hasPlan, nActions, idx, mutations, implArtifact, results,
                rbQueue, rbInput, committed, disk0, last, llmVars, jsonVars, diffVars,
                usage, received>>

\* AnalyzerAgent.run up to the first read of collectSnapshots
analyzerStart ==
    /\ phase3Pending("analyzer")
    /\ aPc = "idle"
    /\ IF implArtifact = None \/ aTodo = <<>>
       THEN /\ p3' = [p3 EXCEPT !.analyzer =
                         Some(AgentResult("analyzer", "skipped", None, FALSE))]
            /\ aPc' = "done"
            /\ events' = events \o finished("analyzer")
       ELSE IF ~apiKey
       THEN /\ p3' = [p3 EXCEPT !.analyzer =
                         Some(AgentResult("analyzer", "failure", None, FALSE))]
            /\ aPc' = "done"
            /\ events' = events \o finished("analyzer")
       ELSE /\ aPc' = "reading"
            /\ UNCHANGED <<p3, events>>
    /\ UNCHANGED <<disk, aTodo, snapshots, tPc, tTodo, wr>>
    /\ p3Frame

\* a snapshot with the content a read returned
Snapshot(path, content) == [path |-> path, content |-> content]

\* one iteration of the loop of collectSnapshots: a read that rejects is
\* skipped
analyzerRead ==
    /\ aPc = "reading"
    /\ aTodo # <<>>
    /\ snapshots' = IF readOutcome(disk, Head(aTodo)).threw = "none"
                    THEN Append(snapshots,
                                Snapshot(Head(aTodo), readOutcome(disk, Head(aTodo)).content))
                    ELSE snapshots
    /\ aTodo' = Tail(aTodo)
    /\ UNCHANGED <<disk, aPc, p3, tPc, tTodo, wr, events>>
    /\ p3Frame

\* the completion of the analyzer arrives or fails
analyzerFinish(llmOk, critical) ==
    /\ aPc = "reading"
    /\ aTodo = <<>>
    /\ p3' = [p3 EXCEPT !.analyzer =
                 Some(AgentResult("analyzer", IF llmOk THEN "success" ELSE "failure",
                                  None, llmOk /\ critical))]
    /\ aPc' = "done"
    /\ events' = events \o finished("analyzer")
    /\ UNCHANGED <<disk, aTodo, snapshots, tPc, tTodo, wr>>
    /\ p3Frame

\* TestGeneratorAgent.run up to the loop over payload.tests
testGeneratorStart(mode, tests) ==
    /\ phase3Pending("testGenerator")
    /\ tPc = "idle"
    /\ IF implArtifact = None \/ (implArtifact # None /\ Head(implArtifact) = 0)
          \/ mode = "skip"
       THEN /\ p3' = [p3 EXCEPT !.testGenerator =
                         Some(AgentResult("test-generator", "skipped", None, FALSE))]
            /\ tPc' = "done"
            /\ events' = events \o finished("test-generator")
            /\ UNCHANGED tTodo
       ELSE IF mode = "llm-error"
       THEN /\ p3' = [p3 EXCEPT !.testGenerator =
                         Some(AgentResult("test-generator", "failure", None, FALSE))]
            /\ tPc' = "done"
            /\ events' = events \o finished("test-generator")
            /\ UNCHANGED tTodo
       ELSE /\ tTodo' = tests
            /\ tPc' = "writing"
            /\ UNCHANGED <<p3, events>>
    /\ UNCHANGED <<disk, aPc, aTodo, snapshots, wr>>
    /\ p3Frame

\* what fsTool.write of a test does up to the open of fs.writeFile: `next`
\* tells whether the loop goes on to the next test at once
WriteOpened(d, next, file) == [disk |-> d, next |-> next, file |-> file]

writeOpen(d, test, dry, conf, answer) ==
    IF pendingWrite(d, test.path, test.content).threw \/ dry \/ (conf /\ ~answer)
    THEN WriteOpened(d, TRUE, None)
    ELSE IF mkdir(d, dirname(resolve(test.path).path)).threw
    THEN WriteOpened(d, TRUE, None)
    ELSE IF writeFile(mkdir(d, dirname(resolve(test.path).path)).disk,
                      resolve(test.path).path, <<>>).threw
    THEN WriteOpened(mkdir(d, dirname(resolve(test.path).path)).disk, TRUE, None)
    ELSE WriteOpened(writeFile(mkdir(d, dirname(resolve(test.path).path)).disk,
                               resolve(test.path).path, <<>>).disk,
                     FALSE,
                     Some([path |-> resolve(test.path).path, content |-> test.content]))

\* fsTool.write of the next test, up to the open of fs.writeFile, which
\* creates or truncates the file
testWriteOpen(answer) ==
    /\ tPc = "writing"
    /\ tTodo # <<>>
    /\ wr = None
    /\ disk' = writeOpen(disk, Head(tTodo), dryRun, hasConfirm, answer).disk
    /\ wr' = writeOpen(disk, Head(tTodo), dryRun, hasConfirm, answer).file
    /\ tTodo' = IF writeOpen(disk, Head(tTodo), dryRun, hasConfirm, answer).next
                THEN Tail(tTodo) ELSE tTodo
    /\ UNCHANGED <<aPc, aTodo, snapshots, tPc, p3, events>>
    /\ p3Frame

\* fs.writeFile writes the data and closes the file
testWriteData ==
    /\ wr # None
    /\ disk' = writeFile(disk, Head(wr).path, Head(wr).content).disk
    /\ wr' = None
    /\ tTodo' = Tail(tTodo)
    /\ UNCHANGED <<aPc, aTodo, snapshots, tPc, p3, events>>
    /\ p3Frame

\* the loop is over: the agent returns Success
testGeneratorFinish ==
    /\ tPc = "writing"
    /\ tTodo = <<>>
    /\ wr = None
    /\ p3' = [p3 EXCEPT !.testGenerator =
                 Some(AgentResult("test-generator", "success", None, FALSE))]
    /\ tPc' = "done"
    /\ events' = events \o finished("test-generator")
    /\ UNCHANGED <<disk, aPc, aTodo, snapshots, tTodo, wr>>
    /\ p3Frame

NextP3 ==
    \/ analyzerStart
    \/ analyzerRead
    \/ \E llmOk \in BOOLEAN, critical \in BOOLEAN : analyzerFinish(llmOk, critical)
    \/ \E mode \in {"skip", "llm-error", "ok"}, tests \in P3TestLists :
          testGeneratorStart(mode, tests)
    \/ \E answer \in BOOLEAN : testWriteOpen(answer)
    \/ testWriteData
    \/ testGeneratorFinish
    \/ optimizerRun(TRUE, FALSE)
    \/ phase3Join

SpecP3 == InitP3 /\ [][NextP3]_vars

(***************************************************************************)
(* Unified diffs.  A patch is a text; the two lines of its file header are *)
(* the characters "--- a" and "+++ a", and a hunk header                   *)
(* `@@ -s,n +t,m @@` is the five characters "@" s n t m.                   *)
(***************************************************************************)
MaxLines == 2

\* the position of the first "\n" of s, or 0
firstNewline(s) ==
    IF \E i \in 1..Len(s) : s[i] = "\n"
    THEN CHOOSE i \in 1..Len(s) : s[i] = "\n" /\ \A j \in 1..(i - 1) : s[j] # "\n"
    ELSE 0

\* s.split("\n")
RECURSIVE split(_)
split(s) ==
    IF firstNewline(s) = 0 THEN <<s>>
    ELSE <<SubSeq(s, 1, firstNewline(s) - 1)>> \o split(SubSeq(s, firstNewline(s) + 1, Len(s)))

\* lines.join("\n")
RECURSIVE joinLines(_)
joinLines(lines) ==
    IF Len(lines) = 0 THEN <<>>
    ELSE IF Len(lines) = 1 THEN lines[1]
    ELSE lines[1] \o <<"\n">> \o joinLines(Tail(lines))

\* the text of a file whose lines all end with a newline
fileText(lines) == joinLines(lines \o << <<>> >>)

\* the lines of `lines` from the 1-based position from to position to, each
\* with the prefix op
prefixed(op, lines, from, to) ==
    [k \in 1..(IF to < from THEN 0 ELSE to - from + 1) |-> <<op>> \o lines[from + k - 1]]

\* the length of the longest common suffix of two line lists that leaves out
\* their first `skip` lines
commonSuffixLen(a, b, skip) ==
    LET fits == { k \in 0..Len(a) : /\ k + skip <= Len(a) /\ k + skip <= Len(b)
                                    /\ \A i \in 1..k : a[Len(a) - k + i] = b[Len(b) - k + i] }
    IN  CHOOSE k \in fits : \A j \in fits : j <= k

fileHeader == <<"--- a", "\n", "+++ a", "\n">>

\* the start a hunk header declares for a range of n lines that begins after
\* `before` lines: one lower than the first line for an empty range
declaredStart(before, n) == IF n = 0 THEN before ELSE before + 1

hunkHeader(oldStart, oldLines, newStart, newLines) ==
    <<"@", ToString(oldStart), ToString(oldLines), ToString(newStart), ToString(newLines)>>

\* the hunk that turns the lines a into the lines b, with up to ctx lines of
\* context on each side
hunkOf(a, b, lead, trail) ==
    LET p == commonPrefixLen(a, b)
        s == commonSuffixLen(a, b, p)
    IN  << hunkHeader(declaredStart(p - lead, lead + (Len(a) - s - p) + trail),
                      lead + (Len(a) - s - p) + trail,
                      declaredStart(p - lead, lead + (Len(b) - s - p) + trail),
                      lead + (Len(b) - s - p) + trail) >>
        \o prefixed(" ", a, p - lead + 1, p)
        \o prefixed("-", a, p + 1, Len(a) - s)
        \o prefixed("+", b, p + 1, Len(b) - s)
        \o prefixed(" ", a, Len(a) - s + 1, Len(a) - s + trail)

least(x, y) == IF x < y THEN x ELSE y

\* the unified diff from the lines a to the lines b with ctx lines of
\* context, every line ended by a newline; no hunk when a = b
unifiedDiff(a, b, ctx) ==
    IF a = b THEN <<>>
    ELSE fileText(hunkOf(a, b, least(ctx, commonPrefixLen(a, b)),
                         least(ctx, commonSuffixLen(a, b, commonPrefixLen(a, b)))))

(***************************************************************************)
(* parsePatch and applyPatch of the diff library, by the meaning of the    *)
(* unified format.  The library either tolerates a hunk whose line counts  *)
(* differ from its header and lines that belong to no hunk, or throws on   *)
(* them (`strict`).                                                        *)
(***************************************************************************)
digit(ch) == CHOOSE n \in 0..9 : ToString(n) = ch

isHunkHeader(line) == Len(line) > 0 /\ line[1] = "@"

\* a line of a hunk body: an empty line stands for an empty context line
\* unless it is the last line of the text
isHunkLine(lines, i) ==
    IF Len(lines[i]) = 0 THEN i # Len(lines)
    ELSE lines[i][1] \in {"+", "-", " ", "\\"}

\* the last line of the hunk body that follows the header at line h
RECURSIVE bodyEnd(_, _)
bodyEnd(lines, i) ==
    IF i < Len(lines) /\ isHunkLine(lines, i + 1) THEN bodyEnd(lines, i + 1) ELSE i

lineOperation(line) == IF Len(line) > 0 THEN line[1] ELSE " "
lineContent(line) == IF Len(line) > 0 THEN Tail(line) ELSE line

countOf(body, ops) == Len(SelectSeq(body, LAMBDA l : lineOperation(l) \in ops))

\* a parsed hunk: starts of empty ranges are raised by one
Hunk(header, body) ==
    [oldStart |-> digit(header[2]) + (IF digit(header[3]) = 0 THEN 1 ELSE 0),
     oldLines |-> digit(header[3]),
     newStart |-> digit(header[4]) + (IF digit(header[5]) = 0 THEN 1 ELSE 0),
     newLines |-> digit(header[5]),
     lines    |-> body]

\* the header matches /@@ -(\d+),(\d+) \+(\d+),(\d+) @@/
wellFormedHeader(line) ==
    /\ Len(line) = 5
    /\ \A k \in 2..5 : \E n \in 0..9 : ToString(n) = line[k]

hunksOf(lines) ==
    LET at == SelectSeq([i \in 1..Len(lines) |-> i],
                        LAMBDA i : isHunkHeader(lines[i]) /\ wellFormedHeader(lines[i]))
    IN  [k \in 1..Len(at) |-> Hunk(lines[at[k]], SubSeq(lines, at[k] + 1, bodyEnd(lines, at[k])))]

\* the lines of the text that are neither header, hunk header nor hunk body
\* and are not empty
unknownLines(lines) ==
    { i \in 1..Len(lines) :
        /\ Len(lines[i]) > 0
        /\ lines[i][1] \notin {"--- a", "+++ a"}
        /\ ~(isHunkHeader(lines[i]) /\ wellFormedHeader(lines[i]))
        /\ ~\E h \in 1..(i - 1) : /\ isHunkHeader(lines[h]) /\ wellFormedHeader(lines[h])
                                  /\ i <= bodyEnd(lines, h) }

countsMatch(hunk) ==
    /\ countOf(hunk.lines, {" ", "-"}) = hunk.oldLines
    /\ countOf(hunk.lines, {" ", "+"}) = hunk.newLines

\* what parsePatch did: it threw, or returned the patches of `files`
PatchParsed(threw, files) == [threw |-> threw, files |-> files]

\* parsePatch(text): the patch of one file, or a throw of the strict library
parsePatch(text, strict) ==
    IF strict /\ (unknownLines(split(text)) # {}
                  \/ \E k \in 1..Len(hunksOf(split(text))) : ~countsMatch(hunksOf(split(text))[k]))
    THEN PatchParsed(TRUE, <<>>)
    ELSE PatchParsed(FALSE, << [hunks |-> hunksOf(split(text))] >>)

\* the lines a hunk expects in the source: its context and removed lines
expected(hunk) == SelectSeq(hunk.lines, LAMBDA l : lineOperation(l) \in {" ", "-"})

\* the hunk fits at the 0-based line toPos with at most fuzz lines that
\* differ from the source
hunkFits(lines, hunk, toPos, fuzz) ==
    Cardinality({ k \in 1..Len(expected(hunk)) :
                    \/ toPos + k < 1
                    \/ toPos + k > Len(lines)
                    \/ lines[toPos + k] # lineContent(expected(hunk)[k]) }) <= fuzz

distance(x, y) == IF x < y THEN y - x ELSE x - y

\* the places a hunk is tried at and fits: its declared place, and the
\* places from minLine up to the last one that leaves room for its old lines
places(lines, hunk, toPos, minLine, fuzz) ==
    { q \in {toPos} \cup minLine..(Len(lines) - hunk.oldLines) :
         hunkFits(lines, hunk, q, fuzz) }

\* the place taken: the declared one, else the nearest, forward before
\* backward
nearest(fitting, toPos) ==
    CHOOSE q \in fitting :
        \A r \in fitting \ {q} :
            \/ distance(q, toPos) < distance(r, toPos)
            \/ distance(q, toPos) = distance(r, toPos) /\ q > r

\* the offset of each hunk from its declared place, or None when a hunk
\* fits nowhere
RECURSIVE placeHunks(_, _, _, _, _)
placeHunks(lines, hunks, offset, minLine, fuzz) ==
    IF Len(hunks) = 0 THEN Some(<<>>)
    ELSE LET hunk    == Head(hunks)
             toPos   == offset + hunk.oldStart - 1
             fitting == places(lines, hunk, toPos, minLine, fuzz)
             taken   == nearest(fitting, toPos) - (hunk.oldStart - 1)
             rest    == placeHunks(lines, Tail(hunks), taken,
                                   taken + hunk.oldStart + hunk.oldLines, fuzz)
         IN  IF fitting = {} \/ rest = None THEN None
             ELSE Some(<<taken>> \o Head(rest))

\* lines.splice(at, 1) and lines.splice(at, 0, line) with a 0-based at
removeAt(lines, at) ==
    IF at < Len(lines) THEN SubSeq(lines, 1, at) \o SubSeq(lines, at + 2, Len(lines))
    ELSE lines
insertAt(lines, at, line) ==
    SubSeq(lines, 1, least(at, Len(lines))) \o <<line>>
        \o SubSeq(lines, least(at, Len(lines)) + 1, Len(lines))

\* the lines of a hunk body applied from the 0-based line toPos on: context
\* is stepped over, "-" removes the line there, "+" inserts its content
RECURSIVE spliceLines(_, _, _)
spliceLines(lines, body, toPos) ==
    IF Len(body) = 0 THEN lines
    ELSE IF lineOperation(Head(body)) = " " THEN spliceLines(lines, Tail(body), toPos + 1)
    ELSE IF lineOperation(Head(body)) = "-"
    THEN spliceLines(removeAt(lines, toPos), Tail(body), toPos)
    ELSE IF lineOperation(Head(body)) = "+"
    THEN spliceLines(insertAt(lines, toPos, lineContent(Head(body))), Tail(body), toPos + 1)
    ELSE spliceLines(lines, Tail(body), toPos)

RECURSIVE spliceHunks(_, _, _, _)
spliceHunks(lines, hunks, offsets, diffOffset) ==
    IF Len(hunks) = 0 THEN lines
    ELSE spliceHunks(spliceLines(lines, Head(hunks).lines,
                                 Head(hunks).oldStart + Head(offsets) + diffOffset - 1),
                     Tail(hunks), Tail(offsets),
                     diffOffset + Head(hunks).newLines - Head(hunks).oldLines)

\* what the library's applyPatch did: it threw, returned false, or returned
\* the patched text
PatchApplied(threw, text) == [threw |-> threw, text |-> text]

\* applyPatch(source, patchObject, {fuzzFactor})
applyPatchObject(source, patch, fuzz) ==
    IF placeHunks(split(source), patch.hunks, 0, 0, fuzz) = None
    THEN PatchApplied(FALSE, None)
    ELSE PatchApplied(FALSE,
                 Some(joinLines(spliceHunks(split(source), patch.hunks,
                                            Head(placeHunks(split(source), patch.hunks, 0, 0, fuzz)),
                                            0))))

\* applyPatch(source, patchString, {fuzzFactor}): the string is parsed first
applyPatchString(source, patchString, fuzz, strict) ==
    IF parsePatch(patchString, strict).threw THEN PatchApplied(TRUE, None)
    ELSE applyPatchObject(source, parsePatch(patchString, strict).files[1], fuzz)

(***************************************************************************)
(* The diff applier of the implementer                                     *)
(***************************************************************************)
\* /^["',\[\]\{}]+$/
artifactOnly(s) ==
    Len(s) > 0 /\ \A i \in 1..Len(s) : s[i] \in {"\"", "'", ",", "[", "]", "{", "}"}

\* the line begins like a line of a diff; the two header lines begin with
\* "-" and "+"
isDiffContentLine(line) ==
    Len(line) > 0 /\ line[1] \in {"+", "-", " ", "@", "\\", "--- a", "+++ a"}

\* the line is wrapped in double or in single quotes
quotedLine(line) ==
    \/ Len(line) > 0 /\ line[1] = "\"" /\ line[Len(line)] = "\""
    \/ Len(line) > 0 /\ line[1] = "'" /\ line[Len(line)] = "'"

leadingSpace(line) == IF Len(line) > 0 /\ line[1] = " " THEN line ELSE <<" ">> \o line

\* what the loop of sanitizePatchArtifacts pushes for a line: nothing, or
\* the cleaned line
cleanedLine(line) ==
    LET normalizedLine == normalizeJsonText(line, FALSE)
        trimmed        == trim(normalizedLine)
        unquoted       == SubSeq(normalizedLine, 2, Len(normalizedLine) - 1)
    IN  IF Len(line) = 0 THEN <<line>>
        ELSE IF artifactOnly(trimmed) THEN <<>>
        ELSE IF Len(trimmed) = 0
        THEN <<IF Len(normalizedLine) > 0 /\ normalizedLine[1] = " "
               THEN normalizedLine ELSE <<" ">> >>
        ELSE IF isDiffContentLine(normalizedLine) THEN <<normalizedLine>>
        ELSE IF quotedLine(normalizedLine) /\ Len(unquoted) = 0 THEN <<>>
        ELSE IF quotedLine(normalizedLine) /\ isDiffContentLine(unquoted) THEN <<unquoted>>
        ELSE IF quotedLine(normalizedLine) /\ artifactOnly(trim(unquoted)) THEN <<>>
        ELSE <<leadingSpace(normalizedLine)>>

RECURSIVE cleanedLines(_)
cleanedLines(lines) ==
    IF Len(lines) = 0 THEN <<>> ELSE cleanedLine(Head(lines)) \o cleanedLines(Tail(lines))

\* sanitizePatchArtifacts: the cleaned lines joined; when no line changed
\* that is the patch itself
sanitizePatchArtifacts(patch) == joinLines(cleanedLines(split(patch)))

\* Math.max(0, Math.min(length, oldStart - 1 + offset))
positional(length, oldStart, offset) ==
    IF oldStart - 1 + offset < 0 THEN 0
    ELSE IF oldStart - 1 + offset > length THEN length
    ELSE oldStart - 1 + offset

\* the candidate indexes of findBestSequenceIndex: for each distance from
\* approx, the index forward and then the index backward
RECURSIVE indexCandidates(_, _, _)
indexCandidates(length, approx, delta) ==
    IF delta > length THEN <<>>
    ELSE (IF approx + delta < length THEN <<approx + delta>> ELSE <<>>)
         \o (IF delta # 0 /\ approx - delta >= 0 THEN <<approx - delta>> ELSE <<>>)
         \o indexCandidates(length, approx, delta + 1)

sameLine(hay, need, useTrimmed) ==
    IF useTrimmed THEN trim(hay) = trim(need) ELSE hay = need

\* matchesAt: the needle lies in the haystack at the 0-based index
matchesAt(haystack, needle, index, useTrimmed) ==
    /\ index >= 0
    /\ index + Len(needle) <= Len(haystack)
    /\ \A i \in 1..Len(needle) : sameLine(haystack[index + i], needle[i], useTrimmed)

\* the loop of matchesPartial: the lines of the needle from i on are found
\* in this order in the haystack from the 1-based line j on
RECURSIVE foundInOrder(_, _, _, _, _)
foundInOrder(haystack, needle, i, j, useTrimmed) ==
    IF i > Len(needle) THEN TRUE
    ELSE IF j > Len(haystack) THEN FALSE
    ELSE IF sameLine(haystack[j], needle[i], useTrimmed)
    THEN foundInOrder(haystack, needle, i + 1, j + 1, useTrimmed)
    ELSE foundInOrder(haystack, needle, i, j + 1, useTrimmed)

matchesPartial(haystack, needle, index, useTrimmed) ==
    /\ Len(needle) > 0
    /\ index >= 0
    /\ index < Len(haystack)
    /\ foundInOrder(haystack, needle, 1, index + 1, useTrimmed)

\* the first candidate of the list that is in the set, or -1
firstIn(candidates, hits) ==
    IF \E k \in 1..Len(candidates) : candidates[k] \in hits
    THEN candidates[CHOOSE k \in 1..Len(candidates) :
                       /\ candidates[k] \in hits
                       /\ \A j \in 1..(k - 1) : candidates[j] \notin hits]
    ELSE -1

\* findBestSequenceIndex with the whitespace-trimmed search before the exact
\* one
findBestSequenceIndexLooseFirst(haystack, needle, removed, context, oldStart, offset) ==
    LET approx     == positional(Len(haystack), oldStart, offset)
        candidates == indexCandidates(Len(haystack), approx, 0)
        all        == { candidates[k] : k \in 1..Len(candidates) }
        removedSequence == SelectSeq(removed, LAMBDA line : Len(trim(line)) > 0)
        contextSequence == SubSeq(context, 1, least(Len(context), 3))
        loose   == firstIn(candidates, { c \in all : matchesAt(haystack, needle, c, TRUE) })
        byRemoved == firstIn(candidates,
                       { c \in all : matchesPartial(haystack, removedSequence, c, TRUE) })
        byContext == firstIn(candidates,
                       { c \in all : matchesPartial(haystack, contextSequence, c, TRUE) })
    IN  IF Len(needle) = 0 THEN approx
        ELSE IF loose # -1 THEN loose
        ELSE IF byRemoved # -1 THEN byRemoved
        ELSE byContext

findBestSequenceIndex(haystack, needle, removed, context, oldStart, offset) ==
    LET approx     == positional(Len(haystack), oldStart, offset)
        candidates == indexCandidates(Len(haystack), approx, 0)
        all        == { candidates[k] : k \in 1..Len(candidates) }
        removedSequence == SelectSeq(removed, LAMBDA line : Len(trim(line)) > 0)
        contextSequence == SubSeq(context, 1, least(Len(context), 3))
        exact   == firstIn(candidates, { c \in all : matchesAt(haystack, needle, c, FALSE) })
        loose   == firstIn(candidates, { c \in all : matchesAt(haystack, needle, c, TRUE) })
        byRemoved == firstIn(candidates,
                       { c \in all : matchesPartial(haystack, removedSequence, c, TRUE) })
        byContext == firstIn(candidates,
                       { c \in all : matchesPartial(haystack, contextSequence, c, TRUE) })
    IN  IF Len(needle) = 0 THEN approx
        ELSE IF exact # -1 THEN exact
        ELSE IF loose # -1 THEN loose
        ELSE IF byRemoved # -1 THEN byRemoved
        ELSE byContext

\* the contents of the lines of a hunk whose operation is one of ops
linesOf(hunk, ops) ==
    LET kept == SelectSeq(hunk.lines, LAMBDA l : Len(l) > 0 /\ l[1] \in ops)
    IN  [k \in 1..Len(kept) |-> Tail(kept[k])]

\* the index a hunk is spliced at by applyPatchManually
manualIndex(working, hunk, offset) ==
    IF Len(linesOf(hunk, {" ", "-"})) > 0
          /\ findBestSequenceIndex(working, linesOf(hunk, {" ", "-"}), linesOf(hunk, {"-"}),
                                   linesOf(hunk, {" "}), hunk.oldStart, offset) # -1
    THEN findBestSequenceIndex(working, linesOf(hunk, {" ", "-"}), linesOf(hunk, {"-"}),
                               linesOf(hunk, {" "}), hunk.oldStart, offset)
    ELSE positional(Len(working), hunk.oldStart, offset)

\* working.splice(index, count, ...replacement)
splice(working, index, count, replacement) ==
    SubSeq(working, 1, index) \o replacement
        \o SubSeq(working, least(index + count, Len(working)) + 1, Len(working))

RECURSIVE manualHunks(_, _, _)
manualHunks(working, hunks, offset) ==
    IF Len(hunks) = 0 THEN working
    ELSE manualHunks(splice(working, manualIndex(working, Head(hunks), offset),
                            Len(linesOf(Head(hunks), {" ", "-"})),
                            linesOf(Head(hunks), {" ", "+"})),
                     Tail(hunks),
                     offset + Len(linesOf(Head(hunks), {" ", "+"}))
                            - Len(linesOf(Head(hunks), {" ", "-"})))

RECURSIVE manualPatches(_, _)
manualPatches(working, patches) ==
    IF Len(patches) = 0 THEN working
    ELSE manualPatches(manualHunks(working, Head(patches).hunks, 0), Tail(patches))

\* applyPatchManually: null without patches, else every hunk is spliced in,
\* at its positional index when its lines are found nowhere
applyPatchManually(original, patches) ==
    IF Len(patches) = 0 THEN None
    ELSE Some(joinLines(manualPatches(split(original), patches)))

\* an entry of the list `attempts`
Attempt(source, patchString, patchObjects, restoreCRLF, fuzz) ==
    [source |-> source, patchString |-> patchString, patchObjects |-> patchObjects,
     restoreCRLF |-> restoreCRLF, fuzz |-> fuzz]

\* the fuzz factors from the most liberal down
fuzzLadderDescending == <<4, 2, 0>>

\* the fuzz factors tried, in order
fuzzLadder == <<0, 2, 4>>

withoutCRLF(s) == IF hasCRLF(s) THEN crlfToLf(s) ELSE s

\* parsePatch(normalizedVariant) returned at least one patch
structured(variant, strict) ==
    /\ ~parsePatch(withoutCRLF(variant), strict).threw
    /\ Len(parsePatch(withoutCRLF(variant), strict).files) > 0

\* the attempts pushed for one variant of the patch
attemptsOf(original, variant, strict) ==
    [k \in 1..3 |-> Attempt(original, Some(variant), None, FALSE, fuzzLadder[k])]
    \o [k \in 1..3 |-> Attempt(withoutCRLF(original), Some(withoutCRLF(variant)), None,
                               hasCRLF(original), fuzzLadder[k])]
    \o (IF structured(variant, strict)
        THEN [k \in 1..3 |->
                Attempt(withoutCRLF(original), None,
                        Some(parsePatch(withoutCRLF(variant), strict).files),
                        hasCRLF(original), fuzzLadder[k])]
        ELSE <<>>)

\* the structured attempt: each patch object applied to the result of the
\* one before; None when one does not apply
RECURSIVE applyObjects(_, _, _)
applyObjects(result, patchObjects, fuzz) ==
    IF Len(patchObjects) = 0 THEN Some(result)
    ELSE IF applyPatchObject(result, Head(patchObjects), fuzz).text = None THEN None
    ELSE applyObjects(Head(applyPatchObject(result, Head(patchObjects), fuzz).text),
                      Tail(patchObjects), fuzz)

\* what one attempt did
attempted(attempt, strict) ==
    IF attempt.patchString # None
    THEN applyPatchString(attempt.source, Head(attempt.patchString), attempt.fuzz, strict)
    ELSE PatchApplied(FALSE, applyObjects(attempt.source, Head(attempt.patchObjects),
                                          attempt.fuzz))

\* what applyUnifiedDiff did: it returned `text`, from the attempt numbered
\* `attempt` (0 for the manual fallback), or it threw an error that has
\* the message of lastError, the manual instructions, the sanitized patch
DiffOutcome(threw, text, attempt, message, instructions, sanitized) ==
    [threw |-> threw, text |-> text, attempt |-> attempt, message |-> message,
     instructions |-> instructions, sanitized |-> sanitized]

\* the throws at the end of applyUnifiedDiff
diffFailure(lastError, lastPatchObjects, lastSanitizedVariant) ==
    IF lastError /\ lastPatchObjects # None /\ Len(Head(lastPatchObjects)) > 0
    THEN DiffOutcome(TRUE, None, 0, TRUE, TRUE, FALSE)
    ELSE IF lastError /\ lastSanitizedVariant # None
    THEN DiffOutcome(TRUE, None, 0, TRUE, FALSE, TRUE)
    ELSE DiffOutcome(TRUE, None, 0, lastError, FALSE, FALSE)

\* the manual fallback, then the throws
afterAttempts(original, lastError, lastPatchObjects, lastSanitizedVariant) ==
    IF /\ lastPatchObjects # None
       /\ Len(Head(lastPatchObjects)) > 0
       /\ applyPatchManually(withoutCRLF(original), Head(lastPatchObjects)) # None
    THEN DiffOutcome(FALSE,
                     Some(IF hasCRLF(original)
                          THEN lfToCrlf(Head(applyPatchManually(withoutCRLF(original),
                                                                Head(lastPatchObjects))))
                          ELSE Head(applyPatchManually(withoutCRLF(original),
                                                       Head(lastPatchObjects)))),
                     0, FALSE, FALSE, FALSE)
    ELSE diffFailure(lastError, lastPatchObjects, lastSanitizedVariant)

\* the loop over the attempts from the k-th on: the first attempt that
\* applies returns, a throw is remembered in lastError
RECURSIVE tryAttempts(_, _, _, _, _, _, _)
tryAttempts(original, attempts, k, lastError, lastPatchObjects, lastSanitizedVariant, strict) ==
    IF k > Len(attempts)
    THEN afterAttempts(original, lastError, lastPatchObjects, lastSanitizedVariant)
    ELSE IF attempted(attempts[k], strict).text # None
    THEN DiffOutcome(FALSE,
                     Some(IF attempts[k].restoreCRLF
                          THEN lfToCrlf(Head(attempted(attempts[k], strict).text))
                          ELSE Head(attempted(attempts[k], strict).text)),
                     k, FALSE, FALSE, FALSE)
    ELSE tryAttempts(original, attempts, k + 1,
                     lastError \/ attempted(attempts[k], strict).threw,
                     lastPatchObjects, lastSanitizedVariant, strict)

RECURSIVE allAttempts(_, _, _)
allAttempts(original, variants, strict) ==
    IF Len(variants) = 0 THEN <<>>
    ELSE attemptsOf(original, Head(variants), strict)
         \o allAttempts(original, Tail(variants), strict)

\* the variants of the patch in the order of the Set: the patch with its
\* header, and the sanitized patch when it differs
variantsOf(baseNormalized) ==
    IF sanitizePatchArtifacts(baseNormalized) = baseNormalized THEN <<baseNormalized>>
    ELSE <<baseNormalized, sanitizePatchArtifacts(baseNormalized)>>

\* the last variant that parsePatch returned patches for
lastStructured(variants, strict) ==
    LET parsed == SelectSeq(variants, LAMBDA v : structured(v, strict))
    IN  IF Len(parsed) = 0 THEN None ELSE Some(withoutCRLF(parsed[Len(parsed)]))

withHeader(trimmed) ==
    IF Len(trimmed) > 0 /\ trimmed[1] = "--- a" THEN trimmed ELSE fileHeader \o trimmed

\* ImplementerAgent.applyUnifiedDiff(original, patch, "a") with a library
\* that is strict or not
applyUnifiedDiffWith(original, patch, strict) ==
    tryAttempts(original, allAttempts(original, variantsOf(withHeader(trim(patch))), strict),
                1, FALSE,
                IF lastStructured(variantsOf(withHeader(trim(patch))), strict) = None THEN None
                ELSE Some(parsePatch(Head(lastStructured(variantsOf(withHeader(trim(patch))),
                                                         strict)), strict).files),
                lastStructured(variantsOf(withHeader(trim(patch))), strict),
                strict)

(***************************************************************************)
(* Specification SpecDiff: applyUnifiedDiff on the content of a file of    *)
(* one to MaxLines lines and a unified diff from that content, or from the *)
(* content of another file, to another one, as a tool that writes diffs    *)
(* produces it or with what a completion adds or leaves out.               *)
(***************************************************************************)
LineContents == { <<"x">>, <<"x", " ">>, <<>> }

FileLines == UNION { [1..n -> LineContents] : n \in 1..MaxLines }

\* the text of the diff in a completion: with its file header, without it,
\* followed by a stray quote of the JSON around it, or written for another
\* file
PatchKinds == { "headed", "bare", "stray", "foreign" }

patchOfKind(diff, kind) ==
    IF kind \in {"headed", "foreign"} THEN fileHeader \o diff
    ELSE IF kind = "bare" THEN diff
    ELSE fileHeader \o diff \o <<"\"", "\n">>

\* the lines of another file: one more than the largest fuzz factor, none of
\* them a line of the file the diff is applied to
foreignLines == [i \in 1..(fuzzLadder[3] + 1) |-> <<"z">>]

DiffInput(a, b, ctx, kind, strict) ==
    [original |-> fileText(a), target |-> fileText(b),
     patch |-> patchOfKind(unifiedDiff(IF kind = "foreign" THEN foreignLines ELSE a, b, ctx),
                           kind),
     kind |-> kind, strict |-> strict]

DiffInputs ==
    { DiffInput(a, b, ctx, kind, strict) :
        a \in FileLines, b \in FileLines, ctx \in 0..MaxLines, kind \in PatchKinds,
        strict \in BOOLEAN }

InitDiff ==
    /\ disk = OutsideDisk @@ WorkspaceAB
    /\ dryRun = FALSE
    /\ hasConfirm = FALSE
    /\ fsPc = "idle" /\ pend = None /\ ret = NoRet
    /\ RunIdle
    /\ LlmIdle
    /\ JsonIdle
    /\ ConcIdle
    /\ din \in { Some(i) : i \in DiffInputs }
    /\ events = <<>>
    /\ dout = None

\* applyUnifiedDiff runs on the content and the patch
applyUnifiedDiffCall ==
    /\ din # None
    /\ dout = None
    /\ dout' = Some(applyUnifiedDiffWith(Head(din).original, Head(din).patch,
                                         Head(din).strict))
    /\ UNCHANGED <<disk, dryRun, hasConfirm, fsVars, runVars, llmVars, jsonVars, concVars, din, events>>

NextDiff == applyUnifiedDiffCall

SpecDiff == InitDiff /\ [][NextDiff]_vars

(***************************************************************************)
(* Specification SpecManual: applyPatchManually on the content of a file   *)
(* of one to MaxLines lines and a parsed patch of one or two hunks: a hunk *)
(* of one to MaxLines lines declared at the first line, at the second or   *)
(* past the end of the file, then possibly a hunk that nothing locates or  *)
(* a pure insertion.                                                       *)
(***************************************************************************)
\* the lines of a hunk: context and removed lines that are or are not in the
\* file, a removed blank line, an added line
HunkLines ==
    { <<" ", "x">>, <<" ", "y">>, <<"-", "x">>, <<"-", "y">>, <<"-">>, <<"+", "y">> }

HunkBodies == UNION { [1..n -> HunkLines] : n \in 1..MaxLines }

\* a hunk as parsePatch returns it
ManualHunk(oldStart, body) ==
    [oldStart |-> oldStart, oldLines |-> countOf(body, {" ", "-"}),
     newStart |-> oldStart, newLines |-> countOf(body, {" ", "+"}),
     lines    |-> body]

\* what follows the first hunk: nothing, a hunk whose lines are nowhere in
\* the file, an insertion without context
LaterHunks ==
    { <<>>,
      << ManualHunk(2, << <<"-", "y">>, <<"+", "x">> >>) >>,
      << ManualHunk(1, << <<"+", "x">> >>) >> }

ManualInput(lines, hunks) ==
    [original |-> joinLines(lines), patches |-> << [hunks |-> hunks] >>]

ManualInputs ==
    { ManualInput(lines, <<ManualHunk(oldStart, body)>> \o later) :
        lines \in FileLines, oldStart \in {1, 2, MaxLines + 2}, body \in HunkBodies,
        later \in LaterHunks }

\* what applyPatchManually did with one hunk: the lines before the splice,
\* the running offset, what findBestSequenceIndex returned (None when it
\* was not called), the index of the splice
Spliced(working, hunk, offset, found, index) ==
    [working |-> working, hunk |-> hunk, offset |-> offset, found |-> found,
     index |-> index]

\* the loop over the hunks of a patch, as the list of its splices
RECURSIVE manualSplices(_, _, _)
manualSplices(working, hunks, offset) ==
    IF Len(hunks) = 0 THEN <<>>
    ELSE << Spliced(working, Head(hunks), offset,
                    IF Len(linesOf(Head(hunks), {" ", "-"})) > 0
                    THEN Some(findBestSequenceIndex(working,
                                  linesOf(Head(hunks), {" ", "-"}),
                                  linesOf(Head(hunks), {"-"}),
                                  linesOf(Head(hunks), {" "}),
                                  Head(hunks).oldStart, offset))
                    ELSE None,
                    manualIndex(working, Head(hunks), offset)) >>
         \o manualSplices(splice(working, manualIndex(working, Head(hunks), offset),
                                 Len(linesOf(Head(hunks), {" ", "-"})),
                                 linesOf(Head(hunks), {" ", "+"})),
                          Tail(hunks),
                          offset + Len(linesOf(Head(hunks), {" ", "+"}))
                                 - Len(linesOf(Head(hunks), {" ", "-"})))

InitManual ==
    /\ disk = OutsideDisk @@ WorkspaceAB
    /\ dryRun = FALSE
    /\ hasConfirm = FALSE
    /\ fsPc = "idle" /\ pend = None /\ ret = NoRet
    /\ RunIdle
    /\ LlmIdle
    /\ JsonIdle
    /\ ConcIdle
    /\ din \in { Some(i) : i \in ManualInputs }
    /\ events = <<>>
    /\ dout = None

\* applyPatchManually runs on the content and the parsed patch
applyPatchManuallyCall ==
    /\ din # None
    /\ dout = None
    /\ dout' = Some([result  |-> applyPatchManually(Head(din).original, Head(din).patches),
                     splices |-> manualSplices(split(Head(din).original),
                                               Head(din).patches[1].hunks, 0)])
    /\ UNCHANGED <<disk, dryRun, hasConfirm, fsVars, runVars, llmVars, jsonVars, concVars, din, events>>

NextManual == applyPatchManuallyCall

SpecManual == InitManual /\ [][NextManual]_vars

(***************************************************************************)
(* Token usage.  Specification SpecUsage: the LLM completions of one       *)
(* Orchestrator.run with the optimized pipeline, and what each of them     *)
(* adds to context.usage.  An agent is followed up to the statement after  *)
(* its `await client.complete(...)`; what the agents do to the workspace   *)
(* is the subject of SpecImpl and SpecP3 and is an input here (parses,     *)
(* applied, mode).  The three agents of phase 3 run interleaved: each of   *)
(* them resumes after its await in a turn of its own, in any order.        *)
(***************************************************************************)
\* what a completion reports: usagePromptTokens and usageCompletionTokens are
\* optional
Tokens(p, c) == [prompt |-> p, completion |-> c]
TokenReports == { Tokens(None, None), Tokens(Some(1), Some(2)), Tokens(Some(2), None) }

\* `count ?? 0`
orZero(count) == IF count = None THEN 0 ELSE Head(count)

\* `usage.prompt += tokens.prompt ?? 0; usage.completion += tokens.completion ?? 0`
addUsage(u, tokens) ==
    [prompt     |-> u.prompt + orZero(tokens.prompt),
     completion |-> u.completion + orZero(tokens.completion)]

\* ghost: the counts of a received completion added to the sum so far
counted(sum, tokens) ==
    [prompt     |-> sum.prompt + (IF tokens.prompt = None THEN 0 ELSE Head(tokens.prompt)),
     completion |-> sum.completion + (IF tokens.completion = None THEN 0
                                      ELSE Head(tokens.completion))]

\* the path of myAIDE.md
myAIDEPath == root \o <<"myAIDE.md">>

usageFrame ==
    UNCHANGED <<dryRun, hasConfirm, fsVars, iteration, iterStart, apiKey, hasCommand,
                hasPlan, nActions, idx, mutations, implArtifact, rbQueue, rbInput,
                committed, disk0, last, completions, lastRaw, failure, jsonVars,
                aPc, aTodo, snapshots, tPc, tTodo, wr, diffVars, events>>

\* Orchestrator.run up to buildContext: handleMyAIDE generates myAIDE.md
\* with a completion of its own when the file is missing or generic, then
\* the context starts with usage 0
handleMyAIDE(generic, llmOk, tokens) ==
    /\ rpc = "myaide"
    /\ IF (~isFile(disk, myAIDEPath) \/ generic) /\ llmOk
       THEN /\ received' = counted(received, tokens)
            /\ disk' = writeFile(disk, myAIDEPath, <<"#">>).disk
       ELSE UNCHANGED <<received, disk>>
    /\ usage' = NoUsage
    /\ rpc' = "planner"
    /\ UNCHANGED <<results, p3, retryCount>>
    /\ usageFrame

\* PlannerAgent.run: no completion without a key
plannerCompletion(llmOk, tokens) ==
    /\ rpc = "planner"
    /\ IF apiKey /\ llmOk
       THEN /\ usage' = addUsage(usage, tokens)
            /\ received' = counted(received, tokens)
            /\ results' = Append(results, AgentResult("planner", "success", None, FALSE))
       ELSE /\ results' = Append(results, AgentResult("planner", "failure", None, FALSE))
            /\ UNCHANGED <<usage, received>>
    /\ rpc' = "implementer"
    /\ UNCHANGED <<disk, p3, retryCount>>
    /\ usageFrame

\* ImplementerAgent.run: the primary completion; a response that parses goes
\* on to applyActions, whose failure ends the pipeline at the reporter
primaryCompletion(llmOk, parses, applied, tokens) ==
    /\ rpc = "implementer"
    /\ IF apiKey /\ llmOk
       THEN /\ usage' = addUsage(usage, tokens)
            /\ received' = counted(received, tokens)
            /\ IF ~parses
               THEN /\ rpc' = "repair"
                    /\ UNCHANGED results
               ELSE /\ rpc' = IF applied THEN "phase3" ELSE "done"
                    /\ results' = Append(results,
                          AgentResult("implementer",
                                      IF applied THEN "success" ELSE "failure",
                                      None, FALSE))
       ELSE /\ results' = Append(results, AgentResult("implementer", "failure", None, FALSE))
            /\ rpc' = "done"
            /\ UNCHANGED <<usage, received>>
    /\ retryCount' = 0
    /\ UNCHANGED <<disk, p3>>
    /\ usageFrame

\* one turn of the repair loop: retryInvalidJson returns `usage` when its
\* completion arrived and nothing of the kind when the request failed
repairCompletion(llmOk, parses, applied, tokens) ==
    /\ rpc = "repair"
    /\ repairsLeft(retryCount)
    /\ IF llmOk
       THEN /\ usage' = addUsage(usage, tokens)
            /\ received' = counted(received, tokens)
       ELSE UNCHANGED <<usage, received>>
    /\ IF llmOk /\ parses
       THEN /\ rpc' = IF applied THEN "phase3" ELSE "done"
            /\ retryCount' = 0
            /\ results' = Append(results,
                  AgentResult("implementer", IF applied THEN "success" ELSE "failure",
                              None, FALSE))
       ELSE /\ retryCount' = retryCount + 1
            /\ UNCHANGED <<rpc, results>>
    /\ UNCHANGED <<disk, p3>>
    /\ usageFrame

\* the repair loop is over without a payload
repairLoopEnds ==
    /\ rpc = "repair"
    /\ ~repairsLeft(retryCount)
    /\ results' = Append(results, AgentResult("implementer", "failure", None, FALSE))
    /\ rpc' = "done"
    /\ retryCount' = 0
    /\ UNCHANGED <<disk, p3, usage, received>>
    /\ usageFrame

\* the agents of phase 3 and the names of their results
ParallelAgents == { "analyzer", "testGenerator", "optimizer" }
agentName(agent) == IF agent = "testGenerator" THEN "test-generator" ELSE agent

\* a phase-3 agent resumes after its completion: mode is "skipped" for an
\* agent that returns before it asks, "llm-error" for a request that fails
parallelCompletion(agent, mode, tokens) ==
    /\ phase3Pending(agent)
    /\ IF mode = "ok"
       THEN /\ usage' = addUsage(usage, tokens)
            /\ received' = counted(received, tokens)
       ELSE UNCHANGED <<usage, received>>
    /\ p3' = [p3 EXCEPT ![agent] =
                 Some(AgentResult(agentName(agent),
                                  IF mode = "ok" THEN "success"
                                  ELSE IF mode = "skipped" THEN "skipped" ELSE "failure",
                                  None, FALSE))]
    /\ UNCHANGED <<disk, rpc, results, retryCount>>
    /\ usageFrame

\* Promise.all resolved; the validator and the reporter ask for no
\* completion, and run returns `usage: context.usage`
parallelJoin ==
    /\ rpc = "phase3"
    /\ \A agent \in ParallelAgents : p3[agent] # None
    /\ results' = results \o p3.analyzer \o p3.testGenerator \o p3.optimizer
    /\ p3' = NoPhase3
    /\ rpc' = "done"
    /\ UNCHANGED <<disk, retryCount, usage, received>>
    /\ usageFrame

\* a workspace with and without myAIDE.md
UsageInitDisks ==
    { OutsideDisk @@ WorkspaceAB,
      OutsideDisk @@ WorkspaceAB @@ (myAIDEPath :> File(<<"#">>)) }

InitUsage ==
    /\ disk \in UsageInitDisks
    /\ disk0 = disk
    /\ dryRun \in BOOLEAN
    /\ hasConfirm = FALSE
    /\ fsPc = "idle" /\ pend = None /\ ret = NoRet
    /\ rpc = "myaide"
    /\ iteration = 0
    /\ iterStart = 0
    /\ apiKey \in BOOLEAN
    /\ hasCommand = FALSE
    /\ hasPlan = FALSE
    /\ nActions = 0
    /\ idx = 0
    /\ mutations = <<>>
    /\ implArtifact = None
    /\ p3 = NoPhase3
    /\ results = <<>>
    /\ rbQueue = <<>>
    /\ rbInput = None
    /\ committed = <<>>
    /\ last = NoLast
    /\ LlmIdle
    /\ JsonIdle
    /\ ConcIdle
    /\ DiffIdle
    /\ events = <<>>

NextUsage ==
    \/ \E generic \in BOOLEAN, llmOk \in BOOLEAN, tokens \in TokenReports :
          handleMyAIDE(generic, llmOk, tokens)
    \/ \E llmOk \in BOOLEAN, tokens \in TokenReports : plannerCompletion(llmOk, tokens)
    \/ \E llmOk \in BOOLEAN, parses \in BOOLEAN, applied \in BOOLEAN,
          tokens \in TokenReports : primaryCompletion(llmOk, parses, applied, tokens)
    \/ \E llmOk \in BOOLEAN, parses \in BOOLEAN, applied \in BOOLEAN,
          tokens \in TokenReports : repairCompletion(llmOk, parses, applied, tokens)
    \/ repairLoopEnds
    \/ \E agent \in ParallelAgents, mode \in {"skipped", "llm-error", "ok"},
          tokens \in TokenReports : parallelCompletion(agent, mode, tokens)
    \/ parallelJoin

SpecUsage == InitUsage /\ [][NextUsage]_vars

(***************************************************************************)
(* Properties of the workspace guard and the mutation recorder (SpecFs)    *)
(***************************************************************************)
\* the path argument, taken lexically, names a node outside the workspace
targetOutside(t) ==
    ~insideRoot(normalize(IF t.abs THEN t.segs ELSE root \o t.segs))

\* the disk outside the workspace is what it was at the start
outsideIntact(d) ==
    /\ \A q \in DOMAIN OutsideDisk : q \in DOMAIN d /\ d[q] = OutsideDisk[q]
    /\ \A q \in DOMAIN d : insideRoot(q) \/ q \in DOMAIN OutsideDisk

\* the absolute path a mutation record names
mutationTarget(m) == root \o m.path

\* C1: resolve returns a normalized path inside (or equal to) the workspace
\* root or throws; every fs primitive a FileSystemTool call issues names a
\* path inside the root, and nothing outside the root is ever read,
\* written, created or deleted.
C1_Confined ==
    /\ \A t \in FsTargets :
          LET r == resolve(t) IN
          /\ ~r.threw => insideRoot(r.path) /\ normalize(r.path) = r.path
          /\ targetOutside(t) => r.threw
    /\ \A x \in ret.touched : insideRoot(x.path)
    /\ pend # None => \A x \in Head(pend).touched : insideRoot(x.path)
    /\ outsideIntact(disk)

\* a path that climbs out of the root and back in was accepted and written
C1_Witness ==
    /\ ret.op = "write" /\ ret.target = Rel(<<"..", "w", "a">>)
    /\ ret.threw = "none"
    /\ Touch("write", <<"w", "a">>) \in ret.touched

\* C5: in dry-run mode no write, delete or ensureDirs call changes the
\* disk, confirm() is never invoked, and every write/delete that returns
\* returns a mutation with applied:false and reason "dry-run".
C5_DryRunFrame ==
    [][ dryRun =>
          /\ disk' = disk
          /\ fsPc' = "idle"
          /\ ret'.confirms = <<>>
          /\ (ret'.op \in {"write", "delete"} /\ ret'.threw = "none" =>
                /\ ret'.mutation # None
                /\ ~Head(ret'.mutation).applied
                /\ Head(ret'.mutation).reason = "dry-run")
          /\ (ret'.op \in {"write", "delete"} => ret'.threw # "io") ]_vars

\* a dry-run write over an existing file, with an approval callback configured
C5_Witness ==
    /\ dryRun /\ hasConfirm
    /\ ret.op = "write" /\ ret.mutation # None
    /\ Head(ret.mutation).reason = "dry-run"
    /\ Head(ret.mutation).before = Some(<<"x">>)
    /\ Head(ret.mutation).after = Some(<<"y">>)

\* C6: with an approval callback and no dry-run, a write/delete invokes the
\* callback exactly once and before any disk change; a false answer yields
\* applied:false, reason "declined" and leaves the disk alone; applied:true
\* is returned only after a true answer (or with no callback configured)
\* and with the disk operation done.
C6_Approval ==
    [][ /\ (hasConfirm /\ ~dryRun) =>
              /\ (fsPc' = "confirming" => disk' = disk)
              /\ (disk' # disk /\ ret'.op \in {"write", "delete"} => fsPc = "confirming")
              /\ (ret'.op \in {"write", "delete"} /\ ret'.threw # "escape" =>
                      Len(ret'.confirms) = 1)
              /\ (ret'.confirms = <<FALSE>> =>
                      /\ disk' = disk
                      /\ ret'.mutation # None
                      /\ ~Head(ret'.mutation).applied
                      /\ Head(ret'.mutation).reason = "declined")
        /\ (ret'.mutation # None /\ Head(ret'.mutation).applied =>
              LET m == Head(ret'.mutation) IN
              /\ ret'.confirms = IF hasConfirm THEN <<TRUE>> ELSE <<>>
              /\ m.action = "write" =>
                    /\ isFile(disk', mutationTarget(m))
                    /\ Some(disk'[mutationTarget(m)].content) = m.after
              /\ m.action = "delete" => mutationTarget(m) \notin DOMAIN disk') ]_vars

\* a delete of an existing file was declined
C6_Witness ==
    /\ hasConfirm /\ ~dryRun
    /\ ret.op = "delete" /\ ret.confirms = <<FALSE>>
    /\ ret.mutation # None /\ Head(ret.mutation).reason = "declined"
    /\ Head(ret.mutation).before # None

\* C8: a write or delete whose path escapes the workspace root throws the
\* path-escape error with no file read, created, modified or deleted,
\* without asking for approval and without a mutation record.
C8_EscapeTouchesNothing ==
    [][ (ret'.op \in {"write", "delete"} /\ targetOutside(ret'.target)) =>
          /\ ret'.threw = "escape"
          /\ disk' = disk
          /\ ret'.touched = {}
          /\ ret'.mutation = None
          /\ ret'.confirms = <<>> ]_vars

\* the write of ../o was refused
C8_Witness ==
    /\ ret.op = "write" /\ ret.target = Rel(<<"..", "o">>)
    /\ ret.threw = "escape"
    /\ ~dryRun

(***************************************************************************)
(* Properties of the workflow run (Spec)                                   *)
(***************************************************************************)
\* the elements of a sequence
Range(seq) == { seq[i] : i \in 1..Len(seq) }

\* the workflow has returned and rollbackMutations has run
rolledBack == rpc = "done" /\ rbInput # None

\* C2 as claimed: after rollbackMutations has processed the applied
\* mutations of a run, every path touched by a mutation whose `before` was
\* recorded holds exactly the content it had before the run started, also
\* when the same path was mutated more than once.
C2_RollbackRestoresPreRun ==
    rolledBack =>
        \A m \in Range(Head(rbInput)) :
            (m.before # None /\ isFile(disk0, root \o m.path)) =>
                readFile(disk, root \o m.path) = readFile(disk0, root \o m.path)

\* C4 as claimed: every mutation committed to disk during a run appears in
\* the `mutations` of some AgentResult the orchestrator returns, so that
\* the rollback step can see it.
C4_CommittedCollected ==
    rpc \in {"workflowTail", "done"} =>
        \A m \in Range(committed) :
            \E r \in Range(results) : r.mutations # None /\ m \in Range(Head(r.mutations))

\* C7: rollbackMutations is invoked exactly when the run is not a dry run,
\* some validator result is a Failure and the results hold applied
\* mutations, and it is then handed all of them; without that the tail of
\* the workflow leaves the disk alone, so a succeeded or skipped validation
\* never triggers rollback.  The validator reports Failure exactly when
\* the validation command exited non-zero or could not be run, Success
\* when it exited with 0 and Skipped when there is no command.
C7_RollbackOnValidatorFailure ==
    [][ /\ (rpc = "workflowTail" /\ rpc' = "done") =>
              LET failed  == \E r \in Range(results) :
                                 r.agent = "validator" /\ r.status = "failure"
                  applied == { m \in UNION { Range(Head(r.mutations)) :
                                             r \in { q \in Range(results) : q.mutations # None } } :
                               m.applied }
              IN  /\ rbInput' # None <=> (~dryRun /\ failed /\ applied # {})
                  /\ rbInput' # None =>
                        /\ Range(Head(rbInput')) = applied
                        /\ disk' = rollbackMutations(disk, Head(rbInput'))
                  /\ rbInput' = None => disk' = disk
        /\ (rpc = "validator" /\ rpc' = "reporter") =>
              LET r == results'[Len(results')] IN
              /\ results' = Append(results, r)
              /\ r.agent = "validator"
              /\ r.status = "failure"
                    <=> (hasCommand /\ last'.shell \in {"nonzero", "spawn-error"})
              /\ r.status = "success" <=> (hasCommand /\ last'.shell = "exit0")
              /\ r.status = "skipped" <=> ~hasCommand
        /\ rpc' # "done" => rbInput' = None ]_vars

\* a run whose second validation succeeded is rolled back because the
\* first one failed
C7_Witness ==
    /\ rolledBack
    /\ disk # disk0
    /\ results[Len(results) - 1] = AgentResult("validator", "success", None, FALSE)
    /\ \E r \in Range(results) : r.agent = "validator" /\ r.status = "failure"

(***************************************************************************)
(* Properties of the implementer's action loop (SpecImpl)                  *)
(***************************************************************************)
\* the step just taken was an iteration of the loop of applyActions
actionTaken == idx' = idx + 1

implementerFailure == AgentResult("implementer", "failure", None, FALSE)

C9_AnchorFirst ==
    (last.action # None) =>
        LET a == Head(last.action)
            o == Head(last.outcome)
            patchPresent == a.patch # None /\ \E i \in 1..Len(Head(a.patch)) :
                                                  ~isWhitespace(Head(a.patch)[i])
        IN  (a.type = "modify_file" /\ a.path.segs # <<>>
             /\ hasAnchor(a) /\ hasAnchorContent(a)) =>
                /\ o.strategies # <<>> /\ Head(o.strategies) = "anchor"
                /\ o.strategies = <<"anchor", "patch">>
                      <=> (o.anchorThrew # "none" /\ patchPresent)
                /\ o.anchorThrew = "none" => (o.strategies = <<"anchor">> /\ o.threw = "none")
                /\ (o.anchorThrew # "none" /\ (~patchPresent \/ o.patchThrew # "none"))
                      => o.threw = o.anchorThrew
                /\ (o.anchorThrew # "none" /\ patchPresent /\ o.patchThrew = "none")
                      => o.threw = "none"
                /\ o.threw = "none" => (Len(o.pushed) = 1 /\ o.writeCalls = 1)
                /\ o.threw # "none" => o.pushed = None

\* the anchor was missing, the patch fallback succeeded
C9_Witness ==
    /\ last.action # None
    /\ Head(last.action).anchor = anchorMissing
    /\ Head(last.outcome).strategies = <<"anchor", "patch">>
    /\ Head(last.outcome).anchorThrew = "anchor-not-found"
    /\ Head(last.outcome).threw = "none"
    /\ Len(Head(last.outcome).pushed) = 1

\* s occurs in content, as a contiguous run
occurs(content, s) ==
    \E i \in 1..Len(content) : \E j \in i..Len(content) : SubSeq(content, i, j) = s

\* lower-cased, with every run of white space squashed to one blank
RECURSIVE squash(_)
squash(s) ==
    IF s = <<>> THEN <<>>
    ELSE IF isWhitespace(Head(s))
    THEN <<" ">> \o squash(trimStart(s))
    ELSE <<toLowerCase(Head(s))>> \o squash(Tail(s))

\* some run of content equals s up to case and the width of white space
occursLoosely(content, s) ==
    \E i \in 1..Len(content) : \E j \in i..Len(content) :
        /\ ~isWhitespace(content[i]) /\ ~isWhitespace(content[j])
        /\ squash(SubSeq(content, i, j)) = squash(s)

\* the anchor is missing from the content: no regex match, no literal,
\* trimmed or loose occurrence of `exact`
anchorAbsent(content, anchor) ==
    /\ \/ anchor.regex = None
       \/ Head(anchor.regex).kind = "invalid"
       \/ /\ Head(anchor.regex).kind = "empty"
          /\ (content = <<>> \/ Head(content) # Head(Head(anchor.regex).text))
       \/ /\ Head(anchor.regex).kind = "literal"
          /\ ~occurs(content, Head(anchor.regex).text)
    /\ \/ anchor.exact = None
       \/ /\ ~occurs(content, Head(anchor.exact))
          /\ ~occurs(content, trim(Head(anchor.exact)))
          /\ ~occursLoosely(content, trim(Head(anchor.exact)))

\* C10: when the anchor of an anchored modify_file action is missing from
\* the content of the file, locate returns not-found; without a patch the
\* action fails with the anchor-not-found error, no write is issued and
\* the disk is unchanged.
C10_MissingAnchorNoWrite ==
    [][ actionTaken =>
          LET a == Head(last'.action)
              o == Head(last'.outcome)
              f == readOutcome(disk, a.path)
          IN  (/\ a.type = "modify_file" /\ a.path.segs # <<>>
               /\ hasAnchor(a) /\ hasAnchorContent(a)
               /\ (modeOf(a) = "replace" => a.replacement # None)
               /\ (modeOf(a) # "replace" => a.snippet # None)
               /\ f.threw = "none"
               /\ anchorAbsent(crlfToLf(f.content), Head(a.anchor))) =>
                  /\ o.anchorThrew = "anchor-not-found"
                  /\ a.patch = None =>
                        /\ o.threw = "anchor-not-found"
                        /\ o.writeCalls = 0
                        /\ o.pushed = None
                        /\ disk' = disk
                        /\ mutations' = mutations ]_vars

\* an anchored edit without a patch whose anchor "c" is nowhere in "a b"
C10_Witness ==
    /\ last.action =
         Some(Modify(pathA, None, None, None, anchorMissing, None, Some(textX), None))
    /\ Head(last.outcome).threw = "anchor-not-found"
    /\ readFile(disk, <<"w", "a">>).content = textAB
    /\ rpc = "reporter"

\* the action is a modify_file action that takes the anchor-first branch
\* and passes the argument checks of the anchor editor
anchoredAction(a) ==
    /\ a.type = "modify_file" /\ a.path.segs # <<>>
    /\ hasAnchor(a) /\ hasAnchorContent(a)
    /\ (modeOf(a) = "replace" => a.replacement # None)
    /\ (modeOf(a) # "replace" => a.snippet # None)

\* the patch of the action is a string with a non-blank character
patchPresent(a) ==
    a.patch # None /\ \E i \in 1..Len(Head(a.patch)) : ~isWhitespace(Head(a.patch)[i])

\* C11: when an anchored action has a non-empty `ensure` and the edited
\* text (in LF space) does not contain it, the anchor edit fails with the
\* post-condition error before any write; the patch fallback runs exactly
\* when a non-blank patch is present, and without one the action fails
\* with that error and the disk is unchanged.  An edited text that does
\* contain `ensure` is handed to the one write of the action.
C11_PostconditionGuardsWrite ==
    [][ actionTaken =>
          LET a == Head(last'.action)
              o == Head(last'.outcome)
              f == readOutcome(disk, a.path)
              original == crlfToLf(f.content)
              match == locateAnchor(original, Head(a.anchor))
              updated == spliceAt(original, match, modeOf(a), a)
          IN  (/\ anchoredAction(a) /\ f.threw = "none" /\ match.found
               /\ a.ensure # None /\ Head(a.ensure) # <<>>) =>
                  IF occurs(updated, Head(a.ensure))
                  THEN /\ o.anchorThrew \in {"none", "io"}
                       /\ o.writeCalls >= 1
                       /\ o.anchorThrew = "none" =>
                             /\ Len(o.pushed) = 1
                             /\ Head(o.pushed).after =
                                  Some(IF hasCRLF(f.content) THEN lfToCrlf(updated)
                                       ELSE updated)
                             /\ o.strategies = <<"anchor">>
                  ELSE /\ o.anchorThrew = "postcondition"
                       /\ o.strategies = <<"anchor", "patch">> <=> patchPresent(a)
                       /\ ~patchPresent(a) =>
                             /\ o.threw = "postcondition"
                             /\ o.writeCalls = 0
                             /\ o.pushed = None
                             /\ disk' = disk ]_vars

\* an anchored edit without a patch whose result "ax b" lacks `ensure` "z"
C11_Witness ==
    /\ last.action # None /\ last.outcome # None
    /\ Head(last.action).ensure = Some(Str1("z"))
    /\ Head(last.action).patch = None
    /\ Head(last.outcome).threw = "postcondition"
    /\ Head(last.outcome).writeCalls = 0
    /\ rpc = "reporter"

\* the 0-based offsets at which s occurs in content
occurrences(content, s) ==
    { i \in 0..(Len(content) - Len(s)) : SubSeq(content, i + 1, i + Len(s)) = s }

\* the first n characters of content, and the characters from offset n on
prefix(content, n) == SubSeq(content, 1, n)
suffix(content, n) == SubSeq(content, n + 1, Len(content))

\* the edit of C12 on `before`, with the span starting at offset start
expectedEdit(before, start, a) ==
    LET end == start + Len(Head(Head(a.anchor).exact)) IN
    IF modeOf(a) = "replace"
    THEN prefix(before, start) \o Head(a.replacement) \o suffix(before, end)
    ELSE IF modeOf(a) = "insert_after"
    THEN prefix(before, end) \o Head(a.snippet) \o suffix(before, end)
    ELSE prefix(before, start) \o Head(a.snippet) \o suffix(before, start)

\* "foo" and "bar"
textFoo == <<"f", "o", "o">>
textBar == <<"b", "a", "r">>

noUsableAnchor(a) ==
    \/ a.anchor = None
    \/ /\ Head(a.anchor).exact \in {None, Some(<<>>)}
       /\ \/ Head(a.anchor).regex = None
          \/ Head(Head(a.anchor).regex).text = <<>>
    \/ (a.snippet = None /\ a.replacement = None)

\* one FileSystemTool.write of content to the path of action a, as outcome
\* o reports it from a disk d: the only strategy, with content as the
\* `after` of its mutation, and on disk when the write was applied
overwrites(o, a, content, d, dnext) ==
    /\ o.strategies = <<"write">>
    /\ o.threw \in {"none", "escape", "io"}
    /\ o.threw = "none" =>
          /\ Len(o.pushed) = 1
          /\ Head(o.pushed).action = "write"
          /\ Head(o.pushed).after = Some(content)
          /\ IF Head(o.pushed).applied
             THEN readFile(dnext, resolve(a.path).path).content = content
             ELSE dnext = d

\* C13: a modify_file action with a path and no usable anchor goes to the
\* diff applier alone when its patch is non-blank; otherwise it overwrites
\* the file with `content` when content is a string; otherwise it fails
\* with the missing-instructions error, no write is issued and the disk is
\* unchanged.  A write_file action with a path and a content issues one
\* write of that content, whatever else it carries.
C13_NoAnchorLadder ==
    [][ actionTaken =>
          LET a == Head(last'.action)
              o == Head(last'.outcome)
          IN  /\ (a.type = "modify_file" /\ a.path.segs # <<>> /\ noUsableAnchor(a)) =>
                    IF patchPresent(a)
                    THEN /\ o.strategies = <<"patch">>
                         /\ o.anchorThrew = "none"
                         /\ o.threw \in {"none", "patch-missing-file", "patch-failed",
                                         "escape", "io"}
                    ELSE IF a.content # None
                    THEN overwrites(o, a, Head(a.content), disk, disk')
                    ELSE /\ o.threw = "missing-instructions"
                         /\ o.strategies = <<>>
                         /\ o.writeCalls = 0
                         /\ o.pushed = None
                         /\ disk' = disk
              /\ (a.type = "write_file" /\ a.path.segs # <<>> /\ a.content # None) =>
                    overwrites(o, a, Head(a.content), disk, disk') ]_vars

\* an anchor without snippet or replacement and a blank patch: file a was
\* overwritten with the content "a b" of the action
C13_Witness ==
    /\ last.action =
         Some(Modify(pathA, Some(textAB), patchBlank, None, anchorFound, None, None, None))
    /\ Head(last.outcome).strategies = <<"write">>
    /\ Head(last.outcome).pushed # None
    /\ Head(Head(last.outcome).pushed).applied
    /\ Head(Head(last.outcome).pushed).before # Some(textAB)
    /\ readFile(disk, <<"w", "a">>).content = textAB

\* the text is what the error message shows of raw: raw with its
\* typographic characters normalised and trimmed, whole when it has at most
\* snippetLength characters, else its first snippetLength characters and an
\* ellipsis
truncatedSnippetOf(text, raw) ==
    LET shown == normalizeJsonText(raw, TRUE) IN
    IF Len(shown) <= snippetLength THEN text = shown
    ELSE /\ Len(text) = snippetLength + 1
         /\ text[snippetLength + 1] = "hellip"
         /\ \A i \in 1..snippetLength : text[i] = shown[i]

\* C14: an implementer run requests at most maxRepairs repair completions
\* after the primary one; completions are requested only while no response
\* has parsed; when the last repair allowed fails too, run returns a Failure
\* result whose message shows the truncated last raw response; and as long
\* as no payload has parsed, the disk is left alone and no mutation is made.
C14_RepairLoop ==
    /\ [](/\ completions <= 1 + maxRepairs
          /\ retryCount <= maxRepairs
          /\ rpc = "repair" => completions = 1 + retryCount /\ retryCount < maxRepairs)
    /\ [](failure # None =>
            /\ Head(failure).attempts = maxRepairs
            /\ completions = 1 + maxRepairs
            /\ lastRaw # None
            /\ truncatedSnippetOf(Head(failure).snippet, Head(lastRaw))
            /\ rpc = "reporter"
            /\ results[Len(results)] = implementerFailure
            /\ idx = 0 /\ mutations = <<>>)
    /\ [][ /\ completions' > completions =>
                rpc \in {"implementer", "repair"} /\ completions' = completions + 1
           /\ rpc = "applyActions" => completions' \in {completions, 0}
           /\ (rpc = "repair" /\ retryCount = maxRepairs - 1 /\ rpc' # "applyActions") =>
                failure' # None
           /\ rpc \in {"implementer", "repair"} =>
                /\ disk' = disk /\ committed' = committed
                /\ UNCHANGED fsVars /\ last' = last ]_vars

\* three completions, none of which parsed: the run failed quoting the
\* first 1200 characters of the last response, and the disk is untouched
C14_Witness ==
    /\ failure # None
    /\ completions = 3
    /\ lastRaw = Some(longRaw)
    /\ Len(Head(failure).snippet) = snippetLength + 1
    /\ results # <<>> /\ results[Len(results)] = implementerFailure
    /\ disk = disk0 /\ committed = <<>>


\* a call of write returns in this step
writeReturns ==
    /\ ret'.op = "write"
    /\ fsPc' = "idle"
    /\ fsPc = "idle" \/ (pend # None /\ Head(pend).op = "write")

\* the content of the file at p, absent when p holds no file
contentAt(d, p) == IF isFile(d, p) THEN Some(d[p].content) ELSE None

\* the call that returns repeats the previous call, which was applied
repeatsAppliedWrite ==
    /\ writeReturns
    /\ ret.op = "write"
    /\ ret.mutation # None
    /\ Head(ret.mutation).applied
    /\ ret'.target = ret.target
    /\ ret'.content = ret.content

\* C23: the mutation write returns has `before` equal to the content of
\* the file when the call was made (absent without a file) and `after`
\* equal to the requested content; when it is applied the file holds
\* `after` on return.  A write that repeats an applied write with the same
\* content has before = after, and is applied unless the confirmation
\* callback declines it.
C23_WriteMutation ==
    [][/\ (writeReturns /\ ret'.mutation # None) =>
             /\ Head(ret'.mutation).action = "write"
             /\ Head(ret'.mutation).before = contentAt(disk, resolve(ret'.target).path)
             /\ Head(ret'.mutation).after = ret'.content
             /\ Head(ret'.mutation).applied =>
                   contentAt(disk', resolve(ret'.target).path) = Head(ret'.mutation).after
       /\ repeatsAppliedWrite =>
             /\ ret'.mutation # None
             /\ Head(ret'.mutation).before = Head(ret'.mutation).after
             /\ Head(ret'.mutation).applied <=> ret'.confirms # <<FALSE>>]_vars

\* C23 as stated: whenever write returns a mutation for the same path and
\* content as the call before it, both mutations are applied and the second
\* has before = after.
C23_RepeatedWriteAsStated ==
    [][(/\ writeReturns
        /\ ret.op = "write"
        /\ ret.mutation # None
        /\ ret'.mutation # None
        /\ ret'.target = ret.target
        /\ ret'.content = ret.content) =>
           /\ Head(ret.mutation).applied
           /\ Head(ret'.mutation).applied
           /\ Head(ret'.mutation).before = Head(ret'.mutation).after]_vars

\* a had been written "y" and the same write was applied again
C23_Witness ==
    /\ ret.op = "write"
    /\ ret.target = Rel(<<"a">>)
    /\ ret.content = Some(<<"y">>)
    /\ ret.mutation # None
    /\ Head(ret.mutation).applied
    /\ Head(ret.mutation).before = Some(<<"y">>)
    /\ Head(ret.mutation).after = Some(<<"y">>)
    /\ contentAt(disk, <<"w", "a">>) = Some(<<"y">>)

(***************************************************************************)
(* Properties of the recovery engine (SpecJson)                            *)
(***************************************************************************)
\* the text is passed to parsePayload and the result is in
parsedPayload == jin # None /\ jout # None /\ Head(jout).op = "parsePayload"

\* the text is passed to balanceJson and the result is in
balanced == jin # None /\ jout # None /\ Head(jout).op = "balanceJson"

\* JSON.parse gives an object whose `actions` is an array of objects, none
\* with a `patches` field
plainPayload(text) ==
    /\ jsonParse(text) # None
    /\ Head(jsonParse(text)).t = "obj"
    /\ getMember(Head(jsonParse(text)), sActions) # None
    /\ Head(getMember(Head(jsonParse(text)), sActions)).t = "arr"
    /\ \A a \in Range(Head(getMember(Head(jsonParse(text)), sActions)).v) :
          a.t = "obj" /\ getMember(a, sPatches) = None

\* C15: for a well-formed payload (an object with an `actions` array and no
\* `patches`), parsePayload returns what JSON.parse returns on the same
\* text, typographic characters inside string values included.
C15_IdentityOnWellFormed ==
    (parsedPayload /\ plainPayload(Head(jin).text))
        => Head(jout).result = [error |-> "none", payload |-> jsonParse(Head(jin).text)]

\* one closing bracket of a well-formed document was deleted and the rest
\* was passed to balanceJson
closerDeleted == balanced /\ Head(jin).kind = "deleted"

\* the balanced text parses to what the document parses to
recovered == jsonParse(Head(jout).result) = jsonParse(Head(jin).doc)

\* behind position i a document holds only white space and brackets equal
\* to the one at position i
lastOfItsRun(doc, i) ==
    \A h \in (i + 1)..Len(doc) : isWhitespace(doc[h]) \/ doc[h] = doc[i]

\* C16 as stated: whichever closing bracket of a well-formed document is
\* deleted, balanceJson returns a text that parses equal to the document.
C16_AnyCloserRecovered == closerDeleted => recovered

\* C16: when one closing bracket of a well-formed document is deleted,
\* balanceJson returns a text that parses equal to the document exactly when
\* the deleted bracket was followed only by white space and by closing
\* brackets of its own kind; balanceJson only appends, so a bracket missing
\* in front of another kind of bracket or of a further member is not put
\* back.
C16_TrailingCloserRecovered ==
    closerDeleted => (recovered <=> lastOfItsRun(Head(jin).doc, Head(jin).at))

C16_Witness ==
    /\ closerDeleted
    /\ Head(jin).doc = exampleDoc
    /\ Head(jin).at = Len(exampleDoc)
    /\ recovered

\* a well-formed document without its last k characters, all of them
\* closing brackets or white space, was passed to balanceJson
closersCut == balanced /\ Head(jin).kind = "cut"

\* the closing brackets among the last k characters of a document
missingClosers(doc, k) ==
    SelectSeq(SubSeq(doc, Len(doc) - k + 1, Len(doc)), LAMBDA ch : ch \in {"}", "]"})

\* the type of the only action of a payload text, None when the text does
\* not parse to a payload of one action
onlyActionType(text) ==
    IF /\ jsonParse(text) # None
       /\ nonEmptyArray(getMember(Head(jsonParse(text)), sActions))
       /\ Len(Head(getMember(Head(jsonParse(text)), sActions)).v) = 1
    THEN getMember(Head(getMember(Head(jsonParse(text)), sActions)).v[1], <<"t", "y", "p", "e">>)
    ELSE None

\* C17: balanceJson returns its input followed by closers only; for a
\* well-formed document cut before a final run of closing brackets, the
\* closers are exactly the missing ones in nesting order and the result
\* parses equal to the document; the write_file example cut before `]}`
\* is balanced into a payload of one write_file action.
C17_CutBalanced ==
    balanced =>
        /\ startsWith(Head(jout).result, Head(jin).text)
        /\ \A i \in (Len(Head(jin).text) + 1)..Len(Head(jout).result) :
              Head(jout).result[i] \in {"}", "]"}
        /\ Head(jin).kind = "cut" =>
              /\ Head(jout).result =
                     Head(jin).text \o missingClosers(Head(jin).doc, Head(jin).at)
              /\ recovered
        /\ (Head(jin).kind = "cut" /\ Head(jin).doc = exampleDoc /\ Head(jin).at = 2) =>
              onlyActionType(Head(jout).result)
                  = Some(JStr(<<"w", "r", "i", "t", "e", "_", "f", "i", "l", "e">>))

C17_Witness ==
    /\ closersCut
    /\ Head(jin).doc = exampleDoc
    /\ Head(jin).at = 2
    /\ Head(jout).result = exampleDoc

\* what parseWithRepair returns for the text, before the actions are
\* expanded
parsedOf(in) == parseWithRepair(sanitizeJson(in.text), in.text, in.fix)

\* the actions of a parsed payload
actionsOf(obj) == Head(getMember(obj, sActions)).v

\* the number of actions that stand for action a after the expansion
siblings(a) ==
    IF nonEmptyArray(getMember(a, sPatches)) THEN Len(Head(getMember(a, sPatches)).v) ELSE 1

\* the number of actions that stand for the first n actions
RECURSIVE expandedBefore(_, _)
expandedBefore(actions, n) ==
    IF n = 0 THEN 0 ELSE expandedBefore(actions, n - 1) + siblings(actions[n])

keysOf(a) == { a.v[i].k : i \in 1..Len(a.v) }

\* b is action a with patch p: the same fields with the same values, and
\* a `patch` field holding p
siblingOf(b, a, p) ==
    /\ b.t = "obj"
    /\ keysOf(b) = keysOf(a) \cup {sPatch}
    /\ getMember(b, sPatch) = Some(p)
    /\ \A k \in keysOf(a) \ {sPatch} : getMember(b, k) = getMember(a, k)

\* actions `after` are actions `before` with every action that has a
\* non-empty `patches` replaced where it stands by one sibling per patch
expanded(before, after) ==
    /\ Len(after) = expandedBefore(before, Len(before))
    /\ \A i \in 1..Len(before) :
          IF nonEmptyArray(getMember(before[i], sPatches))
          THEN \A n \in 1..siblings(before[i]) :
                  siblingOf(after[expandedBefore(before, i - 1) + n], before[i],
                            Head(getMember(before[i], sPatches)).v[n])
          ELSE after[expandedBefore(before, i - 1) + 1] = before[i]

\* C18: the actions parsePayload returns are the parsed actions in their
\* order, each action with a non-empty `patches` array of N strings replaced
\* where it stands by N actions whose `patch` is patches[0..N-1] and whose
\* other fields are the action's, every other action kept unchanged.
C18_PatchesExpanded ==
    (parsedPayload /\ Head(jout).result.error = "none")
        => expanded(actionsOf(Head(parsedOf(Head(jin)))),
                    actionsOf(Head(Head(jout).result.payload)))

C18_Witness ==
    /\ parsedPayload
    /\ Head(jin).text =
           payloadOfActions(<<patchesAction(<<"[">> \o literal(<<"x">>) \o <<",">>
                                  \o literal(<<"y">>) \o <<"]">>, None),
                              contentAction(<<"a", " ", "b">>)>>)
    /\ Head(jout).result.error = "none"
    /\ Len(actionsOf(Head(Head(jout).result.payload))) = 3

(***************************************************************************)
(* Properties of the rollback loop (SpecRb)                                *)
(***************************************************************************)
\* the positions, in the list of recorded mutations, of the mutations
\* rollback retains: applied, and the last applied one of its path
retained(muts) ==
    { i \in 1..Len(muts) :
        /\ muts[i].applied
        /\ \A j \in (i + 1)..Len(muts) : ~(muts[j].applied /\ muts[j].path = muts[i].path) }

Max(S) == CHOOSE x \in S : \A y \in S : y <= x

\* the positions of a set from the latest to the earliest
RECURSIVE descending(_)
descending(S) == IF S = {} THEN <<>> ELSE <<Max(S)>> \o descending(S \ {Max(S)})

\* the retained mutations from the latest recorded to the earliest
reverseChronological(muts) ==
    [i \in 1..Cardinality(retained(muts)) |-> muts[descending(retained(muts))[i]]]

\* the mutations replayed are applied ones, one per path with an applied
\* mutation, each the last applied mutation of its path
latestAppliedPerPath(muts, queue) ==
    /\ \A i \in 1..Len(queue) : queue[i].applied
    /\ \A i, j \in 1..Len(queue) : queue[i].path = queue[j].path => i = j
    /\ { queue[i].path : i \in 1..Len(queue) }
           = { muts[i].path : i \in { h \in 1..Len(muts) : muts[h].applied } }
    /\ \A i \in 1..Len(queue) : \E h \in retained(muts) : queue[i] = muts[h]

\* runWorkflow enters the loop of rollbackMutations
rollbackEntered == rpc = "workflowTail" /\ rpc' = "rollback"

\* C19: the mutations rollback replays are the applied ones, one per path,
\* the latest applied mutation of each path, and they are replayed from the
\* latest recorded to the earliest recorded.
C19_ReverseChronological ==
    [][rollbackEntered =>
          /\ latestAppliedPerPath(flatMutations(results), rbQueue')
          /\ rbQueue' = reverseChronological(flatMutations(results))]_vars

\* the loop of rollbackMutations replays the mutation at the head of the
\* queue
replaying == rpc = "rollback" /\ rbQueue # <<>> /\ rbQueue' = Tail(rbQueue)

\* path p holds a file with content c
holds(d, p, c) == isFile(d, p) /\ d[p].content = c

\* the two disks agree on every path but p
sameElsewhere(d, dnext, p) ==
    \A q \in (DOMAIN d \cup DOMAIN dnext) \ {p} :
        q \in DOMAIN d /\ q \in DOMAIN dnext /\ d[q] = dnext[q]

\* what replaying mutation m does to its own path
pathReplayed(d, dnext, m) ==
    /\ (m.action = "write" /\ m.before # None) => holds(dnext, root \o m.path, Head(m.before))
    /\ (m.action = "write" /\ m.before = None) => root \o m.path \notin DOMAIN dnext
    /\ (m.action = "delete" /\ m.before # None) => holds(dnext, root \o m.path, Head(m.before))
    /\ (m.action = "delete" /\ m.before = None) => dnext = d

\* C20 as stated: replaying a write restores `before` or deletes the path,
\* replaying a delete recreates the file with `before` or does nothing, and
\* no other path is modified.
C20_ReplayAsStated ==
    [][replaying =>
          /\ pathReplayed(disk, disk', Head(rbQueue))
          /\ sameElsewhere(disk, disk', root \o Head(rbQueue).path)]_vars

\* a file among the ancestors of p, or a directory at p: the fs call of the
\* replay is rejected
blocked(d, p) == isDir(d, p) \/ \E q \in ancestors(p) : isFile(d, q)

\* the two disks agree on every path but p and the ancestors of p that were
\* missing, which are directories now
sameButParents(d, dnext, p) ==
    \A q \in (DOMAIN d \cup DOMAIN dnext) \ {p} :
        \/ q \in DOMAIN d /\ q \in DOMAIN dnext /\ d[q] = dnext[q]
        \/ q \notin DOMAIN d /\ q \in ancestors(p) /\ isDir(dnext, q)

\* C20: replaying a write mutation restores `before` when it was recorded
\* and removes the path otherwise; replaying a delete mutation recreates
\* the file with `before` when it was recorded and does nothing otherwise.
\* Restoring a file creates the missing parent directories of the path and
\* changes nothing else; removing changes nothing else.  When a directory
\* stands at the path or a file stands among its ancestors the fs call is
\* rejected, the error is logged, and the disk is left as it was.
C20_ReplayOneMutation ==
    [][replaying =>
          IF Head(rbQueue).action = "delete" /\ Head(rbQueue).before = None
          THEN disk' = disk
          ELSE IF blocked(disk, root \o Head(rbQueue).path)
          THEN disk' = disk
          ELSE IF Head(rbQueue).before # None
          THEN /\ holds(disk', root \o Head(rbQueue).path, Head(Head(rbQueue).before))
               /\ sameButParents(disk, disk', root \o Head(rbQueue).path)
               /\ \A q \in ancestors(root \o Head(rbQueue).path) : isDir(disk', q)
          ELSE /\ root \o Head(rbQueue).path \notin DOMAIN disk'
               /\ sameElsewhere(disk, disk', root \o Head(rbQueue).path)]_vars

\* the run deleted d/c and then d; the replay has recreated d/c with its
\* content and the directory d with it
C20_Witness ==
    /\ rpc = "rollback"
    /\ rbQueue = <<>>
    /\ rbInput # None
    /\ Len(Head(rbInput)) = 2
    /\ Head(rbInput)[1].action = "delete"
    /\ Head(rbInput)[1].path = <<"d", "c">>
    /\ Head(rbInput)[1].before = Some(<<"y">>)
    /\ Head(rbInput)[2].action = "delete"
    /\ Head(rbInput)[2].path = <<"d">>
    /\ holds(disk, <<"w", "d", "c">>, <<"y">>)

\* the paths of the mutations are pairwise distinct and none lies below
\* another
disjointPaths(muts) ==
    \A i, j \in 1..Len(muts) :
        i # j => ~isPrefix(muts[i].path, muts[j].path)

\* the list in the order a permutation of its positions gives
permuted(muts, f) == [i \in 1..Len(muts) |-> muts[f[i]]]

\* runWorkflow has built `ordered` and the loop has not replayed anything
atRollbackEntry ==
    /\ rpc = "rollback"
    /\ rbInput # None
    /\ rbQueue = reverse(latestByPath(Head(rbInput)))

\* C21: for applied mutations over pairwise distinct, non-nested paths the
\* disk rollbackMutations leaves is the same for every permutation of the
\* list it is called with.
C21_OrderIndependent ==
    (atRollbackEntry /\ disjointPaths(Head(rbInput))) =>
        \A f \in Permutations(1..Len(Head(rbInput))) :
            rollbackMutations(disk, permuted(Head(rbInput), f))
                = rollbackMutations(disk, Head(rbInput))

\* three applied mutations of a, b and d/c are about to be rolled back
C21_Witness ==
    /\ atRollbackEntry
    /\ disjointPaths(Head(rbInput))
    /\ Len(Head(rbInput)) = 3
    /\ rollbackMutations(disk, Head(rbInput)) # disk

\* the fs call of replaying mutation m on disk d is rejected
replayRejected(d, m) ==
    /\ ~(m.action = "delete" /\ m.before = None)
    /\ blocked(d, root \o m.path)

\* C22: a rejected restore changes nothing and does not end the loop: the
\* loop goes on with the next retained mutation, every step of the loop
\* replays the head of what is left, and the loop is left only when nothing
\* is left, by returning.
C22_FailureNotFatal ==
    [][rpc = "rollback" =>
          /\ rpc' \in {"rollback", "done"}
          /\ rpc' = "done" => rbQueue = <<>>
          /\ rbQueue # <<>> =>
                /\ rpc' = "rollback"
                /\ rbQueue' = Tail(rbQueue)
                /\ replayRejected(disk, Head(rbQueue)) => disk' = disk
                /\ ~replayRejected(disk, Head(rbQueue)) =>
                      pathReplayed(disk, disk', Head(rbQueue))]_vars

\* the run wrote a, deleted the file d and wrote d/c; the restore of d was
\* rejected because d is a directory now, and a was restored after it
C22_Witness ==
    /\ rpc = "rollback"
    /\ rbQueue = <<>>
    /\ rbInput # None
    /\ Len(Head(rbInput)) = 3
    /\ Head(rbInput)[1].path = <<"a">>
    /\ Head(rbInput)[1].before = Some(textAB)
    /\ Head(rbInput)[2].path = <<"d">>
    /\ Head(rbInput)[2].action = "delete"
    /\ Head(rbInput)[2].before = Some(<<"z">>)
    /\ Head(rbInput)[3].path = <<"d", "c">>
    /\ isDir(disk, <<"w", "d">>)
    /\ holds(disk, <<"w", "a">>, textAB)

(***************************************************************************)
(* Properties of the parallel phase (SpecP3)                               *)
(***************************************************************************)
\* the resolved paths the analyzer has still to read
toRead == { resolve(aTodo[i]).path : i \in 1..Len(aTodo) }

\* the resolved paths of the mutations the implementer applied
implemented == { resolve(Rel(mutations[i].path)).path : i \in 1..Len(mutations) }

\* a snapshot holds a content the file had between two writes
wholeSnapshot(s) ==
    \/ s.content = textX
    \/ s.content = textAB
    \/ \E t \in P3TestSpecs : t.path = s.path /\ s.content = t.content

\* C24: in the parallel phase the file the test generator is writing is
\* never one the implementer mutated nor one the analyzer has still to
\* read, and every snapshot the analyzer took holds a whole content of its
\* file, never the content of a file that was being replaced.
C24_NoOverlappingWrites ==
    /\ wr # None => Head(wr).path \notin (implemented \cup toRead)
    /\ \A i \in 1..Len(snapshots) : wholeSnapshot(snapshots[i])

(***************************************************************************)
(* Properties of the pipeline pass (Spec)                                  *)
(***************************************************************************)
\* the agents of a list of results, in order
agentsOf(rs) == [i \in 1..Len(rs) |-> rs[i].agent]

\* the implementer of the current pass returned a Failure result
implementerFailed ==
    /\ findAgent(iterationResults, "implementer") # None
    /\ Head(findAgent(iterationResults, "implementer")).status = "failure"

\* the pass is over: runOptimizedPipeline returned its results
passReturned == rpc \in {"quality", "loop", "workflowTail", "rollback", "done"}

\* C25: once the implementer of a pass has returned a Failure result, the
\* results of the pass are the planner's and the implementer's, followed by
\* the reporter's as soon as the reporter has run; analyzer, test generator,
\* optimizer and validator have no result in the pass, and the pass returns
\* exactly the results of planner, implementer and reporter.
C25_FailedImplementerSkipsToReporter ==
    (iteration > 0 /\ implementerFailed) =>
        /\ rpc = "reporter" => agentsOf(iterationResults) = <<"planner", "implementer">>
        /\ rpc # "reporter" =>
              /\ passReturned
              /\ agentsOf(iterationResults) = <<"planner", "implementer", "reporter">>
        /\ p3 = NoPhase3

\* a pass returned whose implementer failed on its second action, after a
\* first action that changed the disk
C25_Witness ==
    /\ rpc = "quality"
    /\ implementerFailed
    /\ Len(iterationResults) = 3
    /\ committed # <<>>

(***************************************************************************)
(* Properties of the diff applier (SpecDiff)                               *)
(***************************************************************************)
\* applyUnifiedDiff has run on a unified diff as a tool generates it, with
\* or without its file header
generatedApplied ==
    /\ din # None
    /\ dout # None
    /\ Head(din).kind \in {"headed", "bare"}

\* the fuzz factor of the k-th attempt
fuzzOf(k) == fuzzLadder[((k - 1) % 3) + 1]

\* C26: applyUnifiedDiff applied to a content A and a unified diff generated
\* from A to B returns B, from an attempt with fuzz factor 0.
C26_RoundTrip ==
    generatedApplied =>
        /\ ~Head(dout).threw
        /\ Head(dout).text = Some(Head(din).target)
        /\ Head(dout).attempt > 0
        /\ fuzzOf(Head(dout).attempt) = 0

\* C27: an error thrown by applyUnifiedDiff after every attempt and the
\* manual fallback failed embeds the manual instructions built from the
\* parsed hunks or the sanitized patch.
C27_FailureEmbedsGuidance ==
    (dout # None /\ Head(dout).threw) =>
        (Head(dout).instructions \/ Head(dout).sanitized)

(***************************************************************************)
(* Properties of the anchor editor's line ends (SpecImpl)                  *)
(***************************************************************************)
\* C28: when the anchor editor writes, the anchor was located and the edit
\* computed on the content read with every CRLF replaced by LF if it held a
\* CRLF, and the content handed to the write, which is the content of the
\* file once the write is applied, is the edited text with every LF
\* replaced by CRLF if the content read held a CRLF and the edited text as
\* computed if it held none.
C28_LineEndsOfAnchorEdit ==
    [][ actionTaken =>
          LET a == Head(last'.action)
              o == Head(last'.outcome)
              f == readOutcome(disk, a.path)
              original == IF hasCRLF(f.content) THEN crlfToLf(f.content) ELSE f.content
              match == locateAnchor(original, Head(a.anchor))
              updated == spliceAt(original, match, modeOf(a), a)
              written == IF hasCRLF(f.content) THEN lfToCrlf(updated) ELSE updated
          IN  (/\ anchoredAction(a) /\ f.threw = "none"
               /\ o.anchorThrew = "none") =>
                  /\ match.found
                  /\ Len(o.pushed) = 1
                  /\ Head(o.pushed).after = Some(written)
                  /\ Head(o.pushed).applied => holds(disk', resolve(a.path).path, written)
                  /\ ~Head(o.pushed).applied => disk' = disk ]_vars

\* the first action replaced "A\r\nb" of the file b, "A\r\nb\nb", by "x":
\* the file holds "x\r\nb"
C28_Witness ==
    /\ idx = 1
    /\ last.action = Some(Modify(pathB, None, None, Some("replace"), anchorLoose,
                                 Some(textX), None, None))
    /\ holds(disk0, <<"w", "b">>, textCRLF)
    /\ holds(disk, <<"w", "b">>, <<"x", "\r", "\n", "b">>)


\* ---------------------------------------------------------------------------
\* Properties of the order of a pipeline pass (Spec)
\* ---------------------------------------------------------------------------

\* the agents of the parallel phase, and all agents of a pass
parallelAgents == {"analyzer", "test-generator", "optimizer"}

passAgents == {"planner", "implementer", "validator", "reporter"} \cup parallelAgents

\* the positions of an event in the log of the pass
positionsOf(kind, agent) == {i \in 1..Len(events) : events[i] = Event(kind, agent)}

happened(kind, agent) == positionsOf(kind, agent) # {}

\* if the later event is in the log, the earlier one is in the log before it
precedes(kind1, agent1, kind2, agent2) ==
    \A j \in positionsOf(kind2, agent2) :
        \E i \in positionsOf(kind1, agent1) : i < j

\* the implementer of the pass returned a result that is not a Failure
implementerPassed ==
    /\ findAgent(iterationResults, "implementer") # None
    /\ Head(findAgent(iterationResults, "implementer")).status # "failure"

C30_NoRollbackAfterQualityMet ==
    (rpc = "done" /\ qualityMet(iterationResults)) => rbInput = None


\* ---------------------------------------------------------------------------
\* Properties of the writes of a modify_file action (SpecImpl)
\* ---------------------------------------------------------------------------

\* the paths at which two disks differ
changedPaths(d, e) ==
    { q \in DOMAIN d \cup DOMAIN e :
         ~(q \in DOMAIN d /\ q \in DOMAIN e /\ d[q] = e[q]) }

\* C31: an iteration of the action loop on a modify_file action calls
\* fsTool.write at most once, with the content computed in full beforehand:
\* when the action fails the disk is what it was before the action and no
\* mutation is pushed; when it succeeds one mutation is pushed, and the disk
\* either is unchanged (mutation not applied) or differs at the resolved
\* target, which holds the mutation's `after`, and at the missing directories
\* above it that the write created; the anchor editor that
\* fails, whatever the confirmation answers, leaves the disk as it was, so
\* the write of the patch fallback is the only one.
C31_ModifyWritesOnceOrNothing ==
    [][ actionTaken =>
          LET a == Head(last'.action)
              o == Head(last'.outcome)
          IN  (a.type = "modify_file" /\ a.path.segs # <<>>) =>
                 /\ o.writeCalls <= 1
                 /\ o.threw # "none" => (disk' = disk /\ o.pushed = None)
                 /\ o.threw = "none" =>
                       /\ Len(o.pushed) = 1
                       /\ o.writeCalls = 1
                       /\ IF Head(o.pushed).applied
                          THEN /\ \A q \in changedPaths(disk, disk') \ {resolve(a.path).path} :
                                     /\ q \in ancestors(resolve(a.path).path)
                                     /\ q \notin DOMAIN disk
                                     /\ isDir(disk', q)
                               /\ disk'[resolve(a.path).path] =
                                     File(Head(Head(o.pushed).after))
                          ELSE disk' = disk
                 /\ (hasAnchor(a) /\ hasAnchorContent(a)) =>
                       \A answer \in BOOLEAN :
                          applyAnchoredModification(disk, a, dryRun, hasConfirm,
                                                    answer).threw # "none"
                             => applyAnchoredModification(disk, a, dryRun, hasConfirm,
                                                          answer).disk = disk ]_vars

\* outside dry-run, an anchored action whose edit misses its post-condition
\* and whose diff exhausted every strategy has failed
C31_Witness ==
    /\ ~dryRun
    /\ last.action # None /\ last.outcome # None
    /\ Head(last.action).type = "modify_file"
    /\ Head(last.outcome).strategies = <<"anchor", "patch">>
    /\ Head(last.outcome).anchorThrew = "postcondition"
    /\ Head(last.outcome).patchThrew = "patch-failed"
    /\ Head(last.outcome).threw = "postcondition"
    /\ disk = disk0


\* ---------------------------------------------------------------------------
\* Termination of the refinement loop (Spec)
\* ---------------------------------------------------------------------------

\* the workflow has returned from Orchestrator.run and finished its tail
workflowDone == rpc = "done"

\* a new pipeline pass begins
passBegins == iteration' # iteration

\* the promises of the parallel phase that have not resolved
unresolved ==
    Cardinality({f \in {"analyzer", "testGenerator", "optimizer"} : p3[f] = None})

\* how far the current pass is from its end: the position in the pipeline,
\* refined by the repairs made, the actions left and the promises unresolved
stageLeft ==
    IF rpc = "planner" THEN 1000
    ELSE IF rpc = "implementer" THEN 900
    ELSE IF rpc = "repair" THEN 800 - retryCount
    ELSE IF rpc = "applyActions" THEN 500 + (nActions - idx)
    ELSE IF rpc = "phase3" THEN 400 + unresolved
    ELSE IF rpc = "validator" THEN 300
    ELSE IF rpc = "reporter" THEN 200
    ELSE IF rpc = "quality" THEN 100
    ELSE IF rpc = "loop" THEN 50
    ELSE 20

\* the variant of the workflow: the passes the loop may still begin, then
\* the distance of the current pass from its end; zero once the tail is done
stepsLeft ==
    IF workflowDone THEN 0 ELSE (maxIterations - iteration) * 2000 + stageLeft

\* C32: runIterativeRefinement terminates: every step of the workflow
\* decreases a natural-number variant, so no run has infinitely many steps;
\* the number of pipeline passes is at most maxIterations, and at least one
\* once the loop is left; and a pass begins only while fewer than
\* maxIterations passes have run and the pass before it, if any, did not
\* meet the quality criteria.
C32_RefinementTerminates ==
    /\ [](stepsLeft \in Nat /\ (workflowDone <=> stepsLeft = 0))
    /\ [][stepsLeft' < stepsLeft]_vars
    /\ [](iteration \in 0..maxIterations)
    /\ []((rpc \in {"workflowTail", "done"}) => iteration >= 1)
    /\ [][ passBegins =>
             /\ iteration' = iteration + 1
             /\ iteration < maxIterations
             /\ iteration >= 1 => ~qualityMet(iterationResults) ]_vars

\* the loop was left after a first pass that met the quality criteria
C32_Witness ==
    /\ workflowDone
    /\ iteration = 1
    /\ qualityMet(iterationResults)


\* ---------------------------------------------------------------------------
\* Properties of the refinement loop without a validation command (Spec)
\* ---------------------------------------------------------------------------

\* the results of the first pipeline pass of the run
firstPass == SubSeq(results, 1, IF iteration >= 2 THEN iterStart ELSE Len(results))

\* the validator of the pass returned Skipped
validatorSkipped(rs) ==
    findAgent(rs, "validator") # None /\ Head(findAgent(rs, "validator")).status = "skipped"

\* neither the analyzer nor the optimizer of the pass reported a critical issue
noCriticalIssues(rs) ==
    /\ ~(findAgent(rs, "optimizer") # None /\ Head(findAgent(rs, "optimizer")).critical)
    /\ ~(findAgent(rs, "analyzer") # None /\ Head(findAgent(rs, "analyzer")).critical)

\* C33: when the validator of the first pass returned Skipped (no validation
\* command) and no agent of that pass reported a critical issue, the
\* refinement loop begins no second pass.
C33_SkippedValidationStops ==
    (validatorSkipped(firstPass) /\ noCriticalIssues(firstPass)) => iteration <= 1


\* ---------------------------------------------------------------------------
\* Properties of the attempt ladder of the diff applier (SpecDiff)
\* ---------------------------------------------------------------------------

\* the attempts applyUnifiedDiff pushed for the call, in order
ladderOf(input) ==
    allAttempts(input.original, variantsOf(withHeader(trim(input.patch))), input.strict)

\* the k-th attempt of the call fails: the library returns false or throws
attemptFails(input, k) == attempted(ladderOf(input)[k], input.strict).text = None

\* what the k-th attempt of the call returns, line ends restored
attemptReturns(input, k) ==
    IF ladderOf(input)[k].restoreCRLF
    THEN lfToCrlf(Head(attempted(ladderOf(input)[k], input.strict).text))
    ELSE Head(attempted(ladderOf(input)[k], input.strict).text)

\* C34: the attempts come in groups of three that share source and patch,
\* with fuzz factor 0, then 2, then 4; a content returned by a library
\* attempt is that of the first attempt, in the order of the ladder, that
\* does not fail; and the call ends with the manual fallback or with a throw
\* only when every attempt of every variant has failed.
C34_AttemptLadder ==
    (din # None /\ dout # None) =>
        LET input == Head(din)
            out   == Head(dout)
            n     == Len(ladderOf(input))
        IN  /\ n > 0 /\ n % 3 = 0
            /\ \A k \in 1..n :
                   /\ ladderOf(input)[k].fuzz = 2 * ((k - 1) % 3)
                   /\ (k % 3 # 1) =>
                         /\ ladderOf(input)[k].source = ladderOf(input)[k - 1].source
                         /\ ladderOf(input)[k].patchString
                               = ladderOf(input)[k - 1].patchString
                         /\ ladderOf(input)[k].patchObjects
                               = ladderOf(input)[k - 1].patchObjects
            /\ out.attempt \in 0..n
            /\ out.attempt > 0 =>
                   /\ ~out.threw
                   /\ ~attemptFails(input, out.attempt)
                   /\ out.text = Some(attemptReturns(input, out.attempt))
                   /\ \A j \in 1..(out.attempt - 1) : attemptFails(input, j)
            /\ out.attempt = 0 => \A j \in 1..n : attemptFails(input, j)

\* the content was returned by an attempt with a fuzz factor above 0, after
\* the attempt with fuzz factor 0 on the same source and patch had failed
C34_Witness ==
    /\ din # None /\ dout # None
    /\ ~Head(dout).threw
    /\ Head(dout).attempt > 1
    /\ ladderOf(Head(din))[Head(dout).attempt].fuzz > 0


\* ---------------------------------------------------------------------------
\* Properties of the manual hunk location (SpecManual)
\* ---------------------------------------------------------------------------

\* the lines, each trimmed of surrounding white space
trimmedLines(lines) == [i \in 1..Len(lines) |-> trim(lines[i])]

\* the window of the haystack at the 0-based index c is the needle
windowIs(haystack, needle, c) ==
    /\ c + Len(needle) <= Len(haystack)
    /\ SubSeq(haystack, c + 1, c + Len(needle)) = needle

\* the lines of the sequence occur, trimmed, in this order among the lines of
\* the haystack from the 0-based index c on
occursInOrder(haystack, sequence, c) ==
    \E f \in [1..Len(sequence) -> (c + 1)..Len(haystack)] :
        /\ \A i \in 1..(Len(sequence) - 1) : f[i] < f[i + 1]
        /\ \A i \in 1..Len(sequence) : trim(haystack[f[i]]) = trim(sequence[i])

\* the first element of the list of candidates that is in the set
firstCandidate(candidates, hits) ==
    candidates[CHOOSE k \in 1..Len(candidates) :
                  /\ candidates[k] \in hits
                  /\ \A j \in 1..(k - 1) : candidates[j] \notin hits]

\* what the claim says findBestSequenceIndex returns for the splice r
locatedAsClaimed(r) ==
    LET haystack == r.working
        n        == Len(haystack)
        needle   == linesOf(r.hunk, {" ", "-"})
        nonBlank == SelectSeq(linesOf(r.hunk, {"-"}), LAMBDA line : trim(line) # <<>>)
        leading  == SubSeq(linesOf(r.hunk, {" "}), 1, least(3, Len(linesOf(r.hunk, {" "}))))
        approx   == positional(n, r.hunk.oldStart, r.offset)
        cands    == indexCandidates(n, approx, 0)
        exact    == { c \in 0..(n - 1) : windowIs(haystack, needle, c) }
        loose    == { c \in 0..(n - 1) :
                        windowIs(trimmedLines(haystack), trimmedLines(needle), c) }
        byRemoved == { c \in 0..(n - 1) :
                         Len(nonBlank) > 0 /\ occursInOrder(haystack, nonBlank, c) }
        byContext == { c \in 0..(n - 1) :
                         Len(leading) > 0 /\ occursInOrder(haystack, leading, c) }
        tier     == IF exact # {} THEN exact
                    ELSE IF loose # {} THEN loose
                    ELSE IF byRemoved # {} THEN byRemoved
                    ELSE byContext
        found    == Head(r.found)
    IN  /\ Len(cands) = n
        /\ { cands[k] : k \in 1..n } = 0..(n - 1)
        /\ \A k \in 1..(n - 1) :
               distance(cands[k], approx) <= distance(cands[k + 1], approx)
        /\ IF tier = {} THEN found = -1
           ELSE /\ found = firstCandidate(cands, tier)
                /\ \A c \in tier : distance(found, approx) <= distance(c, approx)

\* C35: findBestSequenceIndex takes every line index of the file exactly
\* once as a candidate, in an order of non-decreasing distance from the
\* declared position (clamped to the file); it returns the nearest candidate
\* at which the context and removed lines stand exactly, if there is one;
\* otherwise the nearest at which they stand when lines are trimmed;
\* otherwise the first candidate from which the non-blank removed lines occur
\* in order; otherwise the first from which the first three context lines
\* occur in order; otherwise -1.
C35_ManualLocation ==
    dout # None =>
        \A k \in 1..Len(Head(dout).splices) :
            Head(dout).splices[k].found # None =>
                locatedAsClaimed(Head(dout).splices[k])

\* a hunk whose lines stand nowhere as a window was located by its removed
\* lines, away from its declared position
C35_Witness ==
    /\ dout # None
    /\ LET r == Head(dout).splices[1] IN
         /\ r.found # None
         /\ Head(r.found) >= 0
         /\ Head(r.found) # positional(Len(r.working), r.hunk.oldStart, r.offset)
         /\ \A c \in 0..Len(r.working) :
                ~windowIs(trimmedLines(r.working),
                          trimmedLines(linesOf(r.hunk, {" ", "-"})), c)


\* ---------------------------------------------------------------------------
\* Properties of the manual hunk splicing (SpecManual)
\* ---------------------------------------------------------------------------

\* the lines a hunk looks for, and the lines it puts in their place
targetOf(hunk) == linesOf(hunk, {" ", "-"})

replacementOf(hunk) == linesOf(hunk, {" ", "+"})

\* the text of the file after the k-th splice of the call
textAfter(out, k) ==
    IF k < Len(out.splices) THEN joinLines(out.splices[k + 1].working)
    ELSE Head(out.result)

\* the lines with the `count` lines after the 0-based index replaced
replacedAt(working, index, count, replacement) ==
    SubSeq(working, 1, index) \o replacement \o SubSeq(working, index + count + 1, Len(working))

\* C36: applyPatchManually returns a text for every parsed diff with a hunk;
\* a hunk that no heuristic locates, or that looks for no line, is spliced at
\* its declared offset oldStart - 1 plus the running delta, clamped to the
\* file; every hunk replaces exactly as many lines as it has context and
\* removed lines, at the chosen index, by its context and added lines; and
\* the running delta grows by replacement length minus target length.
C36_ManualSplice ==
    dout # None =>
        LET out == Head(dout) IN
        /\ out.result # None
        /\ Len(out.splices) = Len(Head(din).patches[1].hunks)
        /\ out.splices[1].offset = 0
        /\ \A k \in 1..Len(out.splices) :
               LET r == out.splices[k] IN
               /\ (r.found = None \/ r.found = Some(-1)) =>
                      r.index = positional(Len(r.working), r.hunk.oldStart, r.offset)
               /\ (r.found # None /\ r.found # Some(-1)) => r.index = Head(r.found)
               /\ r.index + Len(targetOf(r.hunk)) <= Len(r.working)
               /\ textAfter(out, k) =
                      joinLines(replacedAt(r.working, r.index, Len(targetOf(r.hunk)),
                                           replacementOf(r.hunk)))
               /\ k < Len(out.splices) =>
                      out.splices[k + 1].offset =
                         r.offset + Len(replacementOf(r.hunk)) - Len(targetOf(r.hunk))


\* ---------------------------------------------------------------------------
\* The order in which an anchor is resolved (SpecImpl)
\* ---------------------------------------------------------------------------

\* the leftmost place where s stands in the content
firstOccurrence(content, s) ==
    LET i == CHOOSE i \in 0..(Len(content) - Len(s)) :
                /\ SubSeq(content, i + 1, i + Len(s)) = s
                /\ \A j \in 0..(i - 1) : SubSeq(content, j + 1, j + Len(s)) # s
    IN  Match(i, i + Len(s))

\* the runs of the content that equal s up to case and the width of white
\* space, as pairs of 1-based first and last position
looseRuns(content, s) ==
    { r \in (1..Len(content)) \X (1..Len(content)) :
         /\ r[1] <= r[2]
         /\ ~isWhitespace(content[r[1]]) /\ ~isWhitespace(content[r[2]])
         /\ squash(SubSeq(content, r[1], r[2])) = squash(s) }

\* the leftmost of those runs
firstLooseRun(content, s) ==
    LET r == CHOOSE r \in looseRuns(content, s) :
                \A q \in looseRuns(content, s) : r[1] <= q[1]
    IN  Match(r[1] - 1, r[2])

\* the match that exec of a regex that compiles returns: of a literal
\* pattern its first occurrence, of a starred character the run of that
\* character at the start of the content
regexMatch(content, re) ==
    IF re.kind = "literal"
    THEN IF occurs(content, re.text) THEN firstOccurrence(content, re.text) ELSE NoMatch
    ELSE LET run == { n \in 0..Len(content) :
                        /\ \A k \in 1..n : content[k] = Head(re.text)
                        /\ (n < Len(content) => content[n + 1] # Head(re.text)) }
         IN  Match(0, CHOOSE n \in run : TRUE)

\* the resolution of `exact`: literal, then trimmed, then loose
exactMatch(content, exact) ==
    IF occurs(content, exact) THEN firstOccurrence(content, exact)
    ELSE IF occurs(content, trim(exact)) THEN firstOccurrence(content, trim(exact))
    ELSE IF trim(exact) # <<>> /\ looseRuns(content, trim(exact)) # {}
    THEN firstLooseRun(content, trim(exact))
    ELSE NoMatch

\* the resolution of an anchor: a regex that compiles and has a non-empty
\* match wins, whatever `exact` holds; otherwise `exact` decides
anchorMatch(content, anchor) ==
    LET byRegex == IF anchor.regex = None \/ Head(anchor.regex).kind = "invalid"
                   THEN NoMatch
                   ELSE regexMatch(content, Head(anchor.regex))
    IN  IF byRegex.found /\ byRegex.end > byRegex.start THEN byRegex
        ELSE IF anchor.exact = None THEN NoMatch
        ELSE exactMatch(content, Head(anchor.exact))

\* locate returned the match, and the anchor editor reported the anchor
\* missing exactly when there is none
resolvedAs(match, located, threw) ==
    /\ located = match
    /\ threw = "anchor-not-found" <=> ~match.found

\* C37: for an anchored modify_file action on a readable file, locate
\* returns the match that exec finds, the leftmost one, when the regex
\* compiles and that match is not empty, whatever `exact` holds; otherwise
\* the first literal occurrence of `exact`, else of `exact` trimmed, else the
\* leftmost run that equals it up to case and the width of white space; it
\* returns not-found only when all of these fail, and the anchor editor
\* reports anchor-not-found exactly then: a regex that does not compile is
\* no error of its own.
C37_AnchorResolutionOrder ==
    [][ actionTaken =>
          LET a == Head(last'.action)
              o == Head(last'.outcome)
              f == readOutcome(disk, a.path)
          IN  (anchoredAction(a) /\ f.threw = "none") =>
                 \E content \in {crlfToLf(f.content)} :
                    \E match \in {anchorMatch(content, Head(a.anchor))} :
                       resolvedAs(match, locateAnchor(content, Head(a.anchor)),
                                  o.anchorThrew) ]_vars

\* the non-empty runs of the content that a regex that compiles matches
regexSpans(content, re) ==
    { m \in { Match(i, j) : i \in 0..Len(content), j \in 1..Len(content) } :
         /\ m.start < m.end
         /\ IF re.kind = "literal"
            THEN SubSeq(content, m.start + 1, m.end) = re.text
            ELSE \A k \in (m.start + 1)..m.end : content[k] = Head(re.text) }

\* C37 as claimed: whenever the regex compiles and has a non-empty match
\* somewhere in the content, locate returns a match of the regex, whatever
\* `exact` holds.
C37_RegexWinsWheneverItMatches ==
    [][ actionTaken =>
          LET a == Head(last'.action)
              f == readOutcome(disk, a.path)
          IN  (/\ anchoredAction(a) /\ f.threw = "none"
               /\ Head(a.anchor).regex # None
               /\ Head(Head(a.anchor).regex).kind # "invalid") =>
                 \E content \in {crlfToLf(f.content)} :
                    regexSpans(content, Head(Head(a.anchor).regex)) # {} =>
                       locateAnchor(content, Head(a.anchor))
                          \in regexSpans(content, Head(Head(a.anchor).regex)) ]_vars

\* on "a b" the regex b wins over the `exact` a that stands before it, and
\* the replacement lands on the b
C37_Witness ==
    /\ last.action =
         Some(Modify(pathB, None, None, Some("replace"), anchorBoth, Some(textX), None, None))
    /\ Head(last.outcome).threw = "none"
    /\ Head(last.outcome).pushed # None
    /\ Head(Head(last.outcome).pushed).before = Some(textAB)
    /\ Head(Head(last.outcome).pushed).after = Some(Str3("a", " ", "x"))


\* ---------------------------------------------------------------------------
\* Actions on the workspace root (SpecImpl)
\* ---------------------------------------------------------------------------

\* the action writes or deletes a path that resolves to the workspace root
targetsRoot(a) ==
    /\ a.type \in {"write_file", "delete_path"}
    /\ a.path.segs # <<>>
    /\ (a.type = "write_file" => a.content # None)
    /\ ~resolve(a.path).threw
    /\ resolve(a.path).path = root

\* C38: a write_file or delete_path action whose path resolves to the
\* workspace root is rejected, and the disk is after the action what it was
\* before it.
C38_RootNeverOverwrittenOrRemoved ==
    [][ actionTaken =>
          (targetsRoot(Head(last'.action)) =>
              /\ Head(last'.outcome).threw # "none"
              /\ disk' = disk) ]_vars

\* delete_path "." went through and the workspace root is gone from the disk
C38_RootRemoved ==
    /\ last.action = Some(Delete(pathRoot))
    /\ Head(last.outcome).threw = "none"
    /\ root \notin DOMAIN disk


\* ---------------------------------------------------------------------------
\* Dry-run against a run that writes (SpecImpl)
\* ---------------------------------------------------------------------------

\* the disk once the reported mutations have been applied to it in order
RECURSIVE diskAfter(_, _)
diskAfter(d, ms) ==
    IF ms = <<>> THEN d
    ELSE LET m == Head(ms)
             target == root \o m.path
         IN  diskAfter(IF m.action = "write"
                       THEN writeFile(mkdir(d, dirname(target)).disk, target,
                                      Head(m.after)).disk
                       ELSE rmRecursive(d, target).disk,
                       Tail(ms))

\* what a mutation record says was done: action, path, before, after
reported(pushed) ==
    [i \in 1..Len(pushed) |->
        [action |-> pushed[i].action, path |-> pushed[i].path,
         before |-> pushed[i].before, after |-> pushed[i].after]]

\* the two outcomes fail together or report the same mutation
sameReport(preview, real) ==
    /\ preview.threw = "none" <=> real.threw = "none"
    /\ preview.threw = "none" => reported(preview.pushed) = reported(real.pushed)

\* C39: in a dry-run, every action without a patch fails or succeeds as it
\* does in a run without confirmation that writes, and reports the mutation
\* (action, path, before, after) that run applies: the run that writes has
\* by then applied the mutations reported so far, that is, the action meets
\* the disk that these mutations produce from the initial workspace.
C39_DryRunPreviewsRealRun ==
    [][ (actionTaken /\ dryRun) =>
          LET a == Head(last'.action) IN
          ~hasPatchAnyString(a) =>
             \E real \in {applyAction(diskAfter(disk0, mutations), a, None,
                                       FALSE, FALSE, TRUE)} :
                sameReport(Head(last'.outcome), real) ]_vars


\* ---------------------------------------------------------------------------
\* Aggregated token usage (SpecUsage)
\* ---------------------------------------------------------------------------

\* C40: when the run has returned, context.usage.prompt and
\* context.usage.completion are the sums of the prompt and completion token
\* counts (a missing count being 0) reported by the completions received in
\* the run, whatever the order in which the agents of phase 3 resumed.
C40_UsageSumsAllCompletions ==
    rpc = "done" => usage = received

====
